---- MODULE Spec2Model ----
(***************************************************************************)
(* Aggregation and derived-metrics layer of the API usage dashboard:       *)
(* getAggregatedStats, getClientUsageData and determineStatus of           *)
(* lib/mockData.ts, the deterministic split of UsageChart.tsx and          *)
(* APIConsumptionChart, and the search filter of the Index page.           *)
(*                                                                         *)
(* JavaScript numbers are IEEE-754 doubles.  A number is modelled as a     *)
(* record [kind, sign, exp, mant]: kind is "NaN", "Infinity", "zero" or    *)
(* "finite"; a finite number is sign * 0.m1 m2 ... m53 * 2^exp with        *)
(* m1 = 1, mant the 53 significand bits, most significant first.  Every    *)
(* operation rounds to nearest, ties to even, as the hardware does.        *)
(***************************************************************************)
EXTENDS Integers, Sequences, FiniteSets, TLC

VARIABLES
  api,          \* one APIData record under classification: volumes, thresholds, status
  apis,         \* the record collection handed to getClientUsageData
  clientUsage,  \* the ClientUsageData[] it returned
  pc,           \* "idle" before a function under study is called, "done" after
  mockAPIs,     \* the snapshot of the Index page
  searchQuery,  \* Index state: the search text
  filteredAPIs, \* Index memo: the records matching searchQuery
  filteredStats, \* Index memo: getAggregatedStats(filteredAPIs)
  successRateCard, \* Index: the number shown by the Success Rate card
  key,          \* the key string handed to the split functions
  value,        \* the count handed to the split functions
  callsSplit,   \* what splitCalls(value, key) returned in UsageChart
  valueSplit,   \* what splitValue(value, key) returned in APIConsumptionChart
  chartApis,    \* APIConsumptionChart: the apis prop, each record with its statusTimeline
  usageSource,  \* APIConsumptionChart: the usageSource prop
  dailyStatusData, \* APIConsumptionChart memo: the per-day status roll-up
  filteredData, \* APIConsumptionChart memo: the roll-up restricted to usageSource
  generated,    \* generateMockAPIs: the record of one pass of the loop, as it stands in apis
  genPc,        \* generateMockAPIs: "start", "pushed" after apis.push, "returned" after return
  revenueApis,  \* RevenueDetailView: the apis prop
  selectedDay,  \* RevenueDetailView state: the chosen date, << >> for null
  apiRevenueLoss, \* RevenueDetailView memo: loss per record, zero-loss records dropped
  totalRevenueLoss, \* RevenueDetailView: the sum of the losses of apiRevenueLoss
  clientRevenue, \* RevenueDetailView memo: the loss roll-up by client
  dailyChartData, \* RevenueDetailView memo: the loss roll-up by day
  dayAPIs,      \* RevenueDetailView memo: the records with a loss on selectedDay
  dayAPIsWithContribution, \* RevenueDetailView memo: the same with their shares, sorted
  revenueLoss,  \* Index memo: the Revenue Loss card over the records the view is given
  compareApis,  \* ComparisonTab: the apis prop
  mode,         \* ComparisonTab state: "clients" or "apis"
  datePreset,   \* ComparisonTab state: "current-vs-previous" or "custom"
  customFrom,   \* ComparisonTab state: the first day of the custom range, << >> for undefined
  customTo,     \* ComparisonTab state: the last day of the custom range, << >> for undefined
  selectedClients, \* ComparisonTab state
  selectedAPIs, \* ComparisonTab state
  initialized,  \* ComparisonTab state: whether the first five were selected, by mode
  chartData,    \* ComparisonTab memo: one row per selected client or API
  aggregateData, \* ComparisonTab memo: the row over all records
  view,         \* Index state: the DashboardView on screen
  drillDown,    \* Index state: << >> for null, else one record { dayData, apis }
  search,       \* DrillDownDrawer state: the text of its search box
  sortKey,      \* DrillDownDrawer state: the column the table is sorted by
  sortDir,      \* DrillDownDrawer state: "asc" or "desc"
  apiBreakdown, \* DrillDownDrawer memo: one row per record with an entry for the day
  drawerFilteredAPIs, \* DrillDownDrawer memo filteredAPIs: the rows searched and sorted
  searchSuggestions, \* DashboardHeader: the searchSuggestions prop
  headerSearchQuery, \* DashboardHeader: the searchQuery prop
  searchFocused, \* DashboardHeader state
  recentSearches, \* DashboardHeader state: the values picked, latest first
  heap, \* the arrays in memory by reference, heap[1] being the array handed in as apis
  called, \* the function or view that ran last, "" before the first
  results \* what each function returned when it last ran, << >> before

vars == << api, apis, clientUsage, pc, mockAPIs, searchQuery, filteredAPIs, filteredStats,
           successRateCard,
           key, value, callsSplit, valueSplit,
           chartApis, usageSource, dailyStatusData, filteredData,
           generated, genPc,
           revenueApis, selectedDay, apiRevenueLoss, totalRevenueLoss, clientRevenue,
           dailyChartData, dayAPIs, dayAPIsWithContribution, revenueLoss,
           compareApis, mode, datePreset, customFrom, customTo, selectedClients,
           selectedAPIs, initialized, chartData, aggregateData,
           view, drillDown, search, sortKey, sortDir, apiBreakdown, drawerFilteredAPIs,
           searchSuggestions, headerSearchQuery, searchFocused, recentSearches,
           heap, called, results >>

classifierVars == << api >>
aggVars == << apis, clientUsage, pc >>
indexVars == << mockAPIs, searchQuery, filteredAPIs, filteredStats, successRateCard, view >>
splitVars == << key, value, callsSplit, valueSplit >>
chartVars == << chartApis, usageSource, dailyStatusData, filteredData >>
genVars == << generated, genPc >>
revenueVars == << revenueApis, selectedDay, apiRevenueLoss, totalRevenueLoss, clientRevenue,
                 dailyChartData, dayAPIs, dayAPIsWithContribution, revenueLoss >>
compareVars == << compareApis, mode, datePreset, customFrom, customTo, selectedClients,
                 selectedAPIs, initialized, chartData, aggregateData >>
drawerVars == << drillDown, search, sortKey, sortDir, apiBreakdown, drawerFilteredAPIs >>
headerVars == << searchSuggestions, headerSearchQuery, searchFocused, recentSearches >>
frameVars == << heap, called, results >>

\* a component that is not mounted: its variables hold nothing
AggIdle == apis = << >> /\ clientUsage = << >> /\ pc = "idle"
IndexIdle ==
  /\ mockAPIs = << >> /\ searchQuery = << >> /\ filteredAPIs = << >>
  /\ filteredStats = << >> /\ successRateCard = << >> /\ view = << >>
ClassifierIdle == api = << >>
SplitIdle == key = << >> /\ value = 0 /\ callsSplit = << >> /\ valueSplit = << >>
ChartIdle ==
  chartApis = << >> /\ usageSource = "overall" /\ dailyStatusData = << >> /\ filteredData = << >>
GenIdle == generated = << >> /\ genPc = "start"
RevenueIdle ==
  /\ revenueApis = << >> /\ selectedDay = << >> /\ apiRevenueLoss = << >>
  /\ totalRevenueLoss = << >> /\ clientRevenue = << >> /\ dailyChartData = << >>
  /\ dayAPIs = << >> /\ dayAPIsWithContribution = << >> /\ revenueLoss = << >>
CompareIdle ==
  /\ compareApis = << >> /\ mode = "" /\ datePreset = "" /\ customFrom = << >>
  /\ customTo = << >> /\ selectedClients = << >> /\ selectedAPIs = << >>
  /\ initialized = << >> /\ chartData = << >> /\ aggregateData = << >>
DrawerIdle ==
  /\ drillDown = << >> /\ search = << >> /\ sortKey = "total" /\ sortDir = "desc"
  /\ apiBreakdown = << >> /\ drawerFilteredAPIs = << >>
HeaderIdle ==
  /\ searchSuggestions = << >> /\ headerSearchQuery = << >> /\ searchFocused = FALSE
  /\ recentSearches = << >>
FrameIdle == heap = << >> /\ called = "" /\ results = << >>

\* the variables outside each component, and the state in which only it is mounted
notClassifier == << aggVars, indexVars, splitVars, chartVars, genVars, revenueVars,
    compareVars, drawerVars, headerVars, frameVars >>
notAgg == << classifierVars, indexVars, splitVars, chartVars, genVars, revenueVars,
    compareVars, drawerVars, headerVars, frameVars >>
notIndex == << classifierVars, aggVars, splitVars, chartVars, genVars, revenueVars,
    compareVars, drawerVars, headerVars, frameVars >>
notSplit == << classifierVars, aggVars, indexVars, chartVars, genVars, revenueVars,
    compareVars, drawerVars, headerVars, frameVars >>
notChart == << classifierVars, aggVars, indexVars, splitVars, genVars, revenueVars,
    compareVars, drawerVars, headerVars, frameVars >>
notGen == << classifierVars, aggVars, indexVars, splitVars, chartVars, revenueVars,
    compareVars, drawerVars, headerVars, frameVars >>
notRevenue == << classifierVars, aggVars, indexVars, splitVars, chartVars, genVars,
    compareVars, drawerVars, headerVars, frameVars >>
notCompare == << classifierVars, aggVars, indexVars, splitVars, chartVars, genVars,
    revenueVars, drawerVars, headerVars, frameVars >>
notDrawer == << classifierVars, aggVars, indexVars, splitVars, chartVars, genVars,
    revenueVars, compareVars, headerVars, frameVars >>
notHeader == << classifierVars, aggVars, indexVars, splitVars, chartVars, genVars,
    revenueVars, compareVars, drawerVars, frameVars >>
notFrame == << classifierVars, aggVars, indexVars, splitVars, chartVars, genVars,
    revenueVars, compareVars, drawerVars, headerVars >>
ClassifierAlone == AggIdle /\ IndexIdle /\ SplitIdle /\ ChartIdle /\ GenIdle /\
    RevenueIdle /\ CompareIdle /\ DrawerIdle /\ HeaderIdle /\ FrameIdle
AggAlone == ClassifierIdle /\ IndexIdle /\ SplitIdle /\ ChartIdle /\ GenIdle /\
    RevenueIdle /\ CompareIdle /\ DrawerIdle /\ HeaderIdle /\ FrameIdle
IndexAlone == ClassifierIdle /\ AggIdle /\ SplitIdle /\ ChartIdle /\ GenIdle /\
    RevenueIdle /\ CompareIdle /\ DrawerIdle /\ HeaderIdle /\ FrameIdle
SplitAlone == ClassifierIdle /\ AggIdle /\ IndexIdle /\ ChartIdle /\ GenIdle /\
    RevenueIdle /\ CompareIdle /\ DrawerIdle /\ HeaderIdle /\ FrameIdle
ChartAlone == ClassifierIdle /\ AggIdle /\ IndexIdle /\ SplitIdle /\ GenIdle /\
    RevenueIdle /\ CompareIdle /\ DrawerIdle /\ HeaderIdle /\ FrameIdle
GenAlone == ClassifierIdle /\ AggIdle /\ IndexIdle /\ SplitIdle /\ ChartIdle /\
    RevenueIdle /\ CompareIdle /\ DrawerIdle /\ HeaderIdle /\ FrameIdle
RevenueAlone == ClassifierIdle /\ AggIdle /\ IndexIdle /\ SplitIdle /\ ChartIdle /\
    GenIdle /\ CompareIdle /\ DrawerIdle /\ HeaderIdle /\ FrameIdle
CompareAlone == ClassifierIdle /\ AggIdle /\ IndexIdle /\ SplitIdle /\ ChartIdle /\
    GenIdle /\ RevenueIdle /\ DrawerIdle /\ HeaderIdle /\ FrameIdle
DrawerAlone == ClassifierIdle /\ AggIdle /\ IndexIdle /\ SplitIdle /\ ChartIdle /\
    GenIdle /\ RevenueIdle /\ CompareIdle /\ HeaderIdle /\ FrameIdle
HeaderAlone == ClassifierIdle /\ AggIdle /\ IndexIdle /\ SplitIdle /\ ChartIdle /\
    GenIdle /\ RevenueIdle /\ CompareIdle /\ DrawerIdle /\ FrameIdle
FrameAlone == ClassifierIdle /\ AggIdle /\ IndexIdle /\ SplitIdle /\ ChartIdle /\
    GenIdle /\ RevenueIdle /\ CompareIdle /\ DrawerIdle /\ HeaderIdle

(***************************************************************************)
(* Bit strings (most significant bit first)                                *)
(***************************************************************************)
\* 52 stored fraction bits and the implicit leading bit
MantBits == 52 + 1
\* bit strings are processed LimbBits bits at a time
LimbBits == 12
Radix == 2 ^ LimbBits
\* limbs produced by a division: the significand, a guard bit and leading zeros
DivLimbs == (MantBits \div LimbBits) + 3

Zeros(n) == [i \in 1..n |-> 0]

BitLength(n) == CHOOSE L \in 0..30 : n < 2 ^ L /\ (L = 0 \/ n >= 2 ^ (L - 1))

\* the L-bit representation of n < 2^L
IntToBitsN(n, L) == IF L = 0 THEN << >> ELSE [i \in 1..L |-> (n \div 2 ^ (L - i)) % 2]

IntToBits(n) == IntToBitsN(n, BitLength(n))

RECURSIVE BitsToInt(_)
BitsToInt(b) ==
  IF Len(b) = 0 THEN 0
  ELSE IF Len(b) = 1 THEN b[1]
  ELSE LET h == Len(b) \div 2
       IN  BitsToInt(SubSeq(b, 1, Len(b) - h)) * 2 ^ h
             + BitsToInt(SubSeq(b, Len(b) - h + 1, Len(b)))

\* the first n limbs of the binary expansion of rem/d after the point (rem < d)
RECURSIVE FracBits(_, _, _)
FracBits(rem, d, n) ==
  IF n = 0 THEN << >>
  ELSE LET t == rem * Radix
       IN  IntToBitsN(t \div d, LimbBits) \o FracBits(t % d, d, n - 1)

\* the remainder left after those n limbs
RECURSIVE FracRem(_, _, _)
FracRem(rem, d, n) ==
  IF n = 0 THEN rem ELSE FracRem((rem * Radix) % d, d, n - 1)

LeadingZeros(b) ==
  IF \A i \in 1..Len(b) : b[i] = 0 THEN Len(b)
  ELSE (CHOOSE i \in 1..Len(b) : b[i] = 1 /\ \A j \in 1..(i - 1) : b[j] = 0) - 1

\* b + 1 on a bit string that is not all ones
IncBits(b) ==
  LET z == CHOOSE i \in 1..Len(b) : b[i] = 0 /\ \A j \in (i + 1)..Len(b) : b[j] = 1
  IN  [i \in 1..Len(b) |-> IF i < z THEN b[i] ELSE IF i = z THEN 1 ELSE 0]

LowWidth(b) == IF Len(b) < LimbBits THEN Len(b) ELSE LimbBits
LowLimb(b) == BitsToInt(SubSeq(b, Len(b) - LowWidth(b) + 1, Len(b)))
HighPart(b) == SubSeq(b, 1, Len(b) - LowWidth(b))

PadLeft(b, n) == Zeros(n - Len(b)) \o b

\* b * k for a small non-negative integer k
RECURSIVE MulBitsCarry(_, _, _)
MulBitsCarry(b, k, carry) ==
  IF Len(b) = 0 THEN IntToBits(carry)
  ELSE LET t == LowLimb(b) * k + carry
       IN  MulBitsCarry(HighPart(b), k, t \div 2 ^ LowWidth(b))
             \o IntToBitsN(t % 2 ^ LowWidth(b), LowWidth(b))

MulBits(b, k) == PadLeft(MulBitsCarry(b, k, 0), Len(b) + BitLength(k))

\* a + b for two bit strings of the same length, one bit longer
RECURSIVE AddBitsCarry(_, _, _)
AddBitsCarry(a, b, carry) ==
  IF Len(a) = 0 THEN << carry >>
  ELSE LET t == LowLimb(a) + LowLimb(b) + carry
       IN  AddBitsCarry(HighPart(a), HighPart(b), t \div 2 ^ LowWidth(a))
             \o IntToBitsN(t % 2 ^ LowWidth(a), LowWidth(a))

BitsLess(a, b) ==
  \E i \in 1..Len(a) : a[i] < b[i] /\ \A j \in 1..(i - 1) : a[j] = b[j]

(***************************************************************************)
(* IEEE-754 double arithmetic of the JavaScript number type                *)
(***************************************************************************)
NaN == [kind |-> "NaN", sign |-> 1, exp |-> 0, mant |-> << >>]
Infinity(s) == [kind |-> "Infinity", sign |-> s, exp |-> 0, mant |-> << >>]
Zero(s) == [kind |-> "zero", sign |-> s, exp |-> 0, mant |-> << >>]

\* round s * 0.bits * 2^e (plus a non-zero tail when sticky) to a double
RoundToDouble(s, e, bits, sticky) ==
  LET lz   == LeadingZeros(bits)
      nb   == SubSeq(bits, lz + 1, Len(bits)) \o Zeros(MantBits + 2)
      m    == SubSeq(nb, 1, MantBits)
      g    == nb[MantBits + 1]
      rest == sticky \/ \E i \in (MantBits + 2)..Len(nb) : nb[i] = 1
      up   == g = 1 /\ (rest \/ m[MantBits] = 1)
  IN  IF lz = Len(bits) THEN Zero(s)
      ELSE IF ~up THEN [kind |-> "finite", sign |-> s, exp |-> e - lz, mant |-> m]
      ELSE IF \A i \in 1..MantBits : m[i] = 1
           THEN [kind |-> "finite", sign |-> s, exp |-> e - lz + 1,
                 mant |-> << 1 >> \o Zeros(MantBits - 1)]
      ELSE [kind |-> "finite", sign |-> s, exp |-> e - lz, mant |-> IncBits(m)]

Sgn(a) == IF a < 0 THEN -1 ELSE 1
Abs(a) == IF a < 0 THEN -a ELSE a

\* a / b for two integers held in doubles, b >= 0
JSDiv(a, b) ==
  IF b = 0 THEN (IF a = 0 THEN NaN ELSE Infinity(Sgn(a)))
  ELSE LET ip == IntToBits(Abs(a) \div b)
           r  == Abs(a) % b
       IN  RoundToDouble(Sgn(a), Len(ip), ip \o FracBits(r, b, DivLimbs),
                         FracRem(r, b, DivLimbs) # 0)

\* the double holding the integer n
FromInt(n) ==
  IF n = 0 THEN Zero(1)
  ELSE RoundToDouble(Sgn(n), BitLength(Abs(n)), IntToBits(Abs(n)), FALSE)

\* x * (k * 2^sh) for a double x and the literal k * 2^sh, k a small positive integer
JSMul(x, k, sh) ==
  IF x.kind # "finite" THEN x
  ELSE LET p == MulBits(x.mant, k)
       IN  RoundToDouble(x.sign, x.exp + Len(p) - MantBits + sh, p, FALSE)

JSNeg(x) == IF x.kind = "NaN" THEN x ELSE [x EXCEPT !.sign = -x.sign]

\* magnitude order of two finite or zero doubles
MagLess(x, y) ==
  IF y.kind = "zero" THEN FALSE
  ELSE IF x.kind = "zero" THEN TRUE
  ELSE x.exp < y.exp \/ (x.exp = y.exp /\ BitsLess(x.mant, y.mant))

Complement(b) == [i \in 1..Len(b) |-> 1 - b[i]]

\* x + y for two finite doubles
JSAdd(x, y) ==
  IF x.kind = "zero" THEN y
  ELSE IF y.kind = "zero" THEN x
  ELSE LET big   == IF MagLess(x, y) THEN y ELSE x
           small == IF MagLess(x, y) THEN x ELSE y
           d     == big.exp - small.exp
           a     == big.mant \o Zeros(d)
           b     == Zeros(d) \o small.mant
       IN  IF x.sign = y.sign
           THEN RoundToDouble(big.sign, big.exp + 1, AddBitsCarry(a, b, 0), FALSE)
           ELSE IF a = b THEN Zero(1)
           ELSE RoundToDouble(big.sign, big.exp,
                              Tail(AddBitsCarry(a, Complement(b), 1)), FALSE)

\* x < y; every comparison with NaN is false, -0 equals +0
JSLess(x, y) ==
  IF x.kind = "NaN" \/ y.kind = "NaN" THEN FALSE
  ELSE IF x.kind = "Infinity" THEN x.sign = -1 /\ ~(y.kind = "Infinity" /\ y.sign = -1)
  ELSE IF y.kind = "Infinity" THEN y.sign = 1
  ELSE IF x.kind = "zero" /\ y.kind = "zero" THEN FALSE
  ELSE IF x.kind = "zero" THEN y.sign = 1
  ELSE IF y.kind = "zero" THEN x.sign = -1
  ELSE IF x.sign # y.sign THEN x.sign = -1
  ELSE IF x.sign = 1 THEN MagLess(x, y) ELSE MagLess(y, x)

JSEq(x, y) ==
  IF x.kind = "NaN" \/ y.kind = "NaN" THEN FALSE
  ELSE IF x.kind = "zero" /\ y.kind = "zero" THEN TRUE
  ELSE x = y

IsFinite(x) == x.kind \in {"zero", "finite"}

\* a significand as the pair << high, low >> of its value: high * 2^27 + low
HalfMant == 2 ^ ((MantBits + 1) \div 2)
MantPair(m) ==
  << BitsToInt(SubSeq(m, 1, MantBits - (MantBits + 1) \div 2)),
     BitsToInt(SubSeq(m, MantBits - (MantBits + 1) \div 2 + 1, MantBits)) >>

\* long division: n more quotient bits of rem / d for pairs rem < d;
\* gives << quotient bits, remainder >>
RECURSIVE DivBits(_, _, _, _)
DivBits(rem, d, n, acc) ==
  IF n = 0 THEN << acc, rem >>
  ELSE LET low    == (2 * rem[2]) % HalfMant
           high   == 2 * rem[1] + (2 * rem[2]) \div HalfMant
           fits   == high > d[1] \/ (high = d[1] /\ low >= d[2])
           borrow == IF low < d[2] THEN 1 ELSE 0
           left   == IF fits
                     THEN << high - d[1] - borrow, low - d[2] + borrow * HalfMant >>
                     ELSE << high, low >>
       IN  IF left[1] >= 0
           THEN DivBits(left, d, n - 1, Append(acc, IF fits THEN 1 ELSE 0))
           ELSE << acc, rem >>

\* x / y for two doubles
JSDivide(x, y) ==
  IF x.kind = "NaN" \/ y.kind = "NaN" THEN NaN
  ELSE IF x.kind = "Infinity"
       THEN (IF y.kind = "Infinity" THEN NaN ELSE Infinity(x.sign * y.sign))
  ELSE IF y.kind = "Infinity" THEN Zero(x.sign * y.sign)
  ELSE IF y.kind = "zero"
       THEN (IF x.kind = "zero" THEN NaN ELSE Infinity(x.sign * y.sign))
  ELSE IF x.kind = "zero" THEN Zero(x.sign * y.sign)
  ELSE LET a      == MantPair(x.mant)
           d      == MantPair(y.mant)
           fits   == a[1] > d[1] \/ (a[1] = d[1] /\ a[2] >= d[2])
           borrow == IF a[2] < d[2] THEN 1 ELSE 0
           rem    == IF fits
                     THEN << a[1] - d[1] - borrow, a[2] - d[2] + borrow * HalfMant >>
                     ELSE a
           q      == DivBits(rem, d, MantBits + 2, << IF fits THEN 1 ELSE 0 >>)
       IN  RoundToDouble(x.sign * y.sign, x.exp - y.exp + 1, q[1], q[2] # << 0, 0 >>)

\* Math.round of a non-negative double: floor(x + 0.5)
MathRound(x) ==
  IF x.kind = "zero" \/ x.exp < 0 THEN 0
  ELSE BitsToInt(SubSeq(x.mant, 1, x.exp))
         + (IF x.exp + 1 <= MantBits THEN x.mant[x.exp + 1] ELSE 0)

(***************************************************************************)
(* Status/threshold classifier (lib/mockData.ts)                           *)
(***************************************************************************)
MaxCalls == 20
MaxThreshold == 3
RelStep == 5
MaxRelSteps == 11
MaxDrop == 1

RelativeThresholds == { RelStep * k : k \in 0..MaxRelSteps }

\* the percent change with the operands of the subtraction exchanged
percentChange_Swapped(currentCalls, previousCalls) ==
  JSMul(JSDiv(previousCalls - currentCalls, previousCalls), 100, 0)

\* const percentChange = ((currentCalls - previousCalls) / previousCalls) * 100
percentChange(currentCalls, previousCalls) ==
  JSMul(JSDiv(currentCalls - previousCalls, previousCalls), 100, 0)

\* determineStatus with relativeThreshold any number, an integer or not
determineStatusAt(currentCalls, previousCalls, threshold, relativeThreshold) ==
  LET pct == percentChange(currentCalls, previousCalls)
  IN  IF \/ JSLess(FromInt(currentCalls), JSMul(FromInt(threshold), 1, -1))
         \/ JSLess(pct, JSMul(JSNeg(relativeThreshold), 3, -1))
      THEN "critical"
      ELSE IF \/ JSLess(FromInt(currentCalls), FromInt(threshold))
              \/ JSLess(pct, JSNeg(relativeThreshold))
      THEN "warning"
      ELSE "healthy"

\* determineStatus on integer arguments
determineStatus(currentCalls, previousCalls, threshold, relativeThreshold) ==
  determineStatusAt(currentCalls, previousCalls, threshold, FromInt(relativeThreshold))

\* the record fields generateMockAPIs fills from the volumes and thresholds
Classified(c, p, t, r) ==
  [currentCalls |-> c, previousCalls |-> p, threshold |-> t,
   relativeThreshold |-> r, status |-> determineStatus(c, p, t, r)]

ClassifierInit ==
  /\ ClassifierAlone
  /\ \E c \in 0..MaxCalls, p \in 0..MaxCalls, t \in 0..MaxThreshold, r \in RelativeThresholds :
       api = Classified(c, p, t, r)

\* the volume of the record drops and the status is evaluated afresh
VolumeDrop ==
  \E k \in 1..MaxDrop :
    /\ api.currentCalls >= k
    /\ api' = Classified(api.currentCalls - k, api.previousCalls,
                         api.threshold, api.relativeThreshold)
    /\ UNCHANGED notClassifier

ClassifierNext == VolumeDrop

SpecClassifier == ClassifierInit /\ [][ClassifierNext]_vars

Severity(s) == CASE s = "healthy" -> 0 [] s = "warning" -> 1 [] s = "critical" -> 2

\* the classification rule in exact arithmetic: percentChange is
\* (c - p) / p * 100, taken as 0 when p = 0, and every comparison is strict
ExactStatus(c, p, t, r) ==
  LET below15 == p > 0 /\ 200 * (c - p) < -(3 * r * p)
      below   == p > 0 /\ 100 * (c - p) < -(r * p)
  IN  IF 2 * c < t \/ below15 THEN "critical"
      ELSE IF c < t \/ below THEN "warning"
      ELSE "healthy"

\* C3: the classifier returns critical when currentCalls < threshold*0.5 or
\* percentChange < -relativeThreshold*1.5, otherwise warning when
\* currentCalls < threshold or percentChange < -relativeThreshold, otherwise
\* healthy, with percentChange 0 when previousCalls = 0 and strict comparisons.
C3_StrictClassifier ==
  api.status = ExactStatus(api.currentCalls, api.previousCalls,
                           api.threshold, api.relativeThreshold)

\* C4: with previousCalls, threshold and relativeThreshold fixed, a lower
\* volume never has a less severe classification than a higher one.
C4_Monotone ==
  [][ (/\ api'.currentCalls <= api.currentCalls
       /\ api'.previousCalls = api.previousCalls
       /\ api'.threshold = api.threshold
       /\ api'.relativeThreshold = api.relativeThreshold)
      => Severity(api'.status) >= Severity(api.status) ]_vars

\* a record with previousCalls = 0 is critical although a volume at most
\* MaxDrop higher classifies as healthy
C4_Witness ==
  /\ api.previousCalls = 0
  /\ api.status = "critical"
  /\ \E k \in 1..MaxDrop :
       determineStatus(api.currentCalls + k, api.previousCalls,
                       api.threshold, api.relativeThreshold) = "healthy"

(***************************************************************************)
(* Strings: sequences of UTF-16 code units                                 *)
(***************************************************************************)
ToLowerCase(str) ==
  [i \in 1..Len(str) |-> IF str[i] >= 65 /\ str[i] <= 90 THEN str[i] + 32 ELSE str[i]]

Includes(str, q) ==
  \E i \in 0..(Len(str) - Len(q)) : SubSeq(str, i + 1, i + Len(q)) = q

(***************************************************************************)
(* Aggregation engine (lib/mockData.ts)                                    *)
(***************************************************************************)
MaxApis == 3
MaxVolume == 1
MaxPrevious == 0
NumClients == 3
NumApis == 3
MaxQueryLen == 1

\* the first two letters of every name: "Ac"me Corp, "Te"chFlow, "Da"taSync, ...
clients == << << 65, 99 >>, << 84, 101 >>, << 68, 97 >>, << 67, 108 >>, << 78, 101 >> >>
\* "Us"er Authentication, "Pa"ssword Reset, "Se"ssion Manager, "To"ken Validator
apiNames == << << 85, 115 >>, << 80, 97 >>, << 83, 101 >>, << 84, 111 >> >>

Statuses == {"healthy", "warning", "critical"}

RECURSIVE SumOf(_, _)
\* apis.reduce((sum, api) => sum + api[field], 0)
SumOf(seq, field) ==
  IF seq = << >> THEN 0 ELSE SumOf(SubSeq(seq, 1, Len(seq) - 1), field) + seq[Len(seq)][field]

CountStatus(seq, st) == Len(SelectSeq(seq, LAMBDA a : a.status = st))

getAggregatedStats(as) ==
  LET totalCalls         == SumOf(as, "currentCalls")
      previousTotalCalls == SumOf(as, "previousCalls")
      healthyCount       == CountStatus(as, "healthy")
      warningCount       == CountStatus(as, "warning")
      criticalCount      == CountStatus(as, "critical")
  IN  [totalCalls         |-> totalCalls,
       previousTotalCalls |-> previousTotalCalls,
       totalChange        |-> JSMul(JSDiv(totalCalls - previousTotalCalls,
                                          previousTotalCalls), 100, 0),
       activeAPIs         |-> Len(as),
       healthyCount       |-> healthyCount,
       warningCount       |-> warningCount,
       criticalCount      |-> criticalCount,
       alertCount         |-> warningCount + criticalCount]

\* "2026-11-02" and "2026-11-03", the days of the timelines, oldest first
ChartDays == << << 50, 48, 50, 54, 45, 49, 49, 45, 48, 50 >>,
               << 50, 48, 50, 54, 45, 49, 49, 45, 48, 51 >> >>

\* a.localeCompare(b) < 0 on date strings
RECURSIVE StringLess(_, _)
StringLess(a, b) ==
  IF b = << >> THEN FALSE
  ELSE IF a = << >> THEN TRUE
  ELSE IF a[1] # b[1] THEN a[1] < b[1]
  ELSE StringLess(Tail(a), Tail(b))

\* "W51" and "W52"
Weeks == << << 87, 53, 49 >>, << 87, 53, 50 >> >>

\* const months = ['Jan', 'Feb', ..., 'Dec']
months ==
  << << 74, 97, 110 >>, << 70, 101, 98 >>, << 77, 97, 114 >>, << 65, 112, 114 >>,
     << 77, 97, 121 >>, << 74, 117, 110 >>, << 74, 117, 108 >>, << 65, 117, 103 >>,
     << 83, 101, 112 >>, << 79, 99, 116 >>, << 78, 111, 118 >>, << 68, 101, 99 >> >>

\* position of the entry of a Map with this key, 0 if there is none
KeyIndex(map, k) ==
  IF \E i \in 1..Len(map) : map[i].key = k
  THEN CHOOSE i \in 1..Len(map) : map[i].key = k
  ELSE 0

CallsAdd_Overwrite(map, k, calls) ==
  LET i == KeyIndex(map, k)
  IN  IF i = 0 THEN Append(map, [key |-> k, calls |-> 0 + calls])
      ELSE [map EXCEPT ![i].calls = calls]

\* map.set(k, (map.get(k) || 0) + calls)
CallsAdd(map, k, calls) ==
  LET i == KeyIndex(map, k)
  IN  IF i = 0 THEN Append(map, [key |-> k, calls |-> 0 + calls])
      ELSE [map EXCEPT ![i].calls = @ + calls]

\* api.dailyData.forEach and api.weeklyData.forEach, the key read from field
RECURSIVE MergeCalls(_, _, _)
MergeCalls(map, series, field) ==
  IF series = << >> THEN map
  ELSE MergeCalls(CallsAdd(map, Head(series)[field], Head(series).calls), Tail(series), field)

\* one round of api.monthlyData.forEach
MonthAdd(map, d) ==
  LET i == KeyIndex(map, d.month)
      prev == IF i = 0 THEN [calls |-> 0, previousYear |-> 0]
              ELSE [calls |-> map[i].calls, previousYear |-> map[i].previousYear]
      entry == [key |-> d.month, calls |-> prev.calls + d.calls,
                previousYear |-> prev.previousYear + d.previousYear]
  IN  IF i = 0 THEN Append(map, entry) ELSE [map EXCEPT ![i] = entry]

RECURSIVE MergeMonths(_, _)
MergeMonths(map, series) ==
  IF series = << >> THEN map
  ELSE MergeMonths(MonthAdd(map, Head(series)), Tail(series))

InsertByKey_Unordered(sorted, x) == Append(sorted, x)

\* the stable sort of Map entries by a[0].localeCompare(b[0])
RECURSIVE InsertByKey(_, _)
InsertByKey(sorted, x) ==
  IF sorted = << >> THEN << x >>
  ELSE IF StringLess(x.key, Head(sorted).key) THEN << x >> \o sorted
  ELSE << Head(sorted) >> \o InsertByKey(Tail(sorted), x)

RECURSIVE SortByKey(_)
SortByKey(seq) ==
  IF seq = << >> THEN << >>
  ELSE InsertByKey(SortByKey(SubSeq(seq, 1, Len(seq) - 1)), seq[Len(seq)])

\* the dailyData of a group: the entries sorted, then mapped to { date, calls }
DailyOf(map) ==
  LET sorted == SortByKey(map)
  IN  [i \in 1..Len(sorted) |-> [date |-> sorted[i].key, calls |-> sorted[i].calls]]

WeeklyOf(map) ==
  LET sorted == SortByKey(map)
  IN  [i \in 1..Len(sorted) |-> [week |-> sorted[i].key, calls |-> sorted[i].calls]]

\* months.map(month => data.monthlyData.get(month) || { calls: 0, previousYear: 0 })
MonthlyOf(map) ==
  [m \in 1..Len(months) |->
     LET i == KeyIndex(map, months[m])
     IN  [month |-> months[m],
          calls |-> IF i = 0 THEN 0 ELSE map[i].calls,
          previousYear |-> IF i = 0 THEN 0 ELSE map[i].previousYear]]

\* a record that carries its three series; the specifications that read the
\* volumes only hold the records without them
HasSeries(a) == "monthlyData" \in DOMAIN a

\* clientMap.get(client): the position of the client's entry, 0 when absent
MapIndex(map, client) ==
  IF \E j \in 1..Len(map) : map[j].client = client
  THEN CHOOSE j \in 1..Len(map) : map[j].client = client
  ELSE 0

\* the round with = written for += on totalCalls
MapAdd_Overwrite(map, a) ==
  LET j        == MapIndex(map, a.client)
      existing == IF j = 0
                  THEN [client |-> a.client, totalCalls |-> 0, previousCalls |-> 0,
                        apiCount |-> 0]
                  ELSE map[j]
      updated  == [existing EXCEPT !.totalCalls = a.currentCalls,
                                   !.previousCalls = @ + a.previousCalls,
                                   !.apiCount = @ + 1]
  IN  IF j = 0 THEN Append(map, updated) ELSE [map EXCEPT ![j] = updated]

\* one round of apis.forEach: get the entry or a fresh one, add, set
\* (a Map keeps its keys in the order of their first insertion)
MapAdd(map, a) ==
  LET j        == MapIndex(map, a.client)
      existing == IF j = 0
                  THEN [client |-> a.client, totalCalls |-> 0, previousCalls |-> 0,
                        apiCount |-> 0]
                  ELSE map[j]
      summed   == [existing EXCEPT !.totalCalls = @ + a.currentCalls,
                                   !.previousCalls = @ + a.previousCalls,
                                   !.apiCount = @ + 1]
      before   == IF j = 0 THEN [dailyData |-> << >>, weeklyData |-> << >>,
                                  monthlyData |-> << >>]
                  ELSE map[j]
      updated  == IF HasSeries(a)
                  THEN [client |-> summed.client, totalCalls |-> summed.totalCalls,
                        previousCalls |-> summed.previousCalls,
                        apiCount |-> summed.apiCount,
                        dailyData |-> MergeCalls(before.dailyData, a.dailyData, "date"),
                        weeklyData |-> MergeCalls(before.weeklyData, a.weeklyData, "week"),
                        monthlyData |-> MergeMonths(before.monthlyData, a.monthlyData)]
                  ELSE summed
  IN  IF j = 0 THEN Append(map, updated) ELSE [map EXCEPT ![j] = updated]

RECURSIVE BuildClientMap(_)
BuildClientMap(as) ==
  IF as = << >> THEN << >>
  ELSE MapAdd(BuildClientMap(SubSeq(as, 1, Len(as) - 1)), as[Len(as)])

\* the .map() step: one ClientUsageData per Map entry
ToClientUsage(data) ==
  LET series == IF HasSeries(data)
                THEN << DailyOf(data.dailyData), WeeklyOf(data.weeklyData),
                        MonthlyOf(data.monthlyData) >>
                ELSE << >>
      trend  == JSMul(JSDiv(data.totalCalls - data.previousCalls, data.previousCalls),
                      100, 0)
  IN  IF HasSeries(data)
      THEN [client |-> data.client, totalCalls |-> data.totalCalls,
            apiCount |-> data.apiCount, trend |-> trend,
            dailyData |-> series[1], weeklyData |-> series[2], monthlyData |-> series[3]]
      ELSE [client |-> data.client, totalCalls |-> data.totalCalls,
            apiCount |-> data.apiCount, trend |-> trend]

\* an unstable sort that puts x in front of the elements it ties with
InsertSorted_BeforeEqual(sorted, x) ==
  LET k == Cardinality({ i \in 1..Len(sorted) : sorted[i].totalCalls > x.totalCalls })
  IN  SubSeq(sorted, 1, k) \o << x >> \o SubSeq(sorted, k + 1, Len(sorted))

\* Array.prototype.sort is stable: x goes behind every element that the
\* comparator (a, b) => b.totalCalls - a.totalCalls does not place after it
InsertSorted(sorted, x) ==
  LET k == Cardinality({ i \in 1..Len(sorted) : sorted[i].totalCalls >= x.totalCalls })
  IN  SubSeq(sorted, 1, k) \o << x >> \o SubSeq(sorted, k + 1, Len(sorted))

RECURSIVE SortByTotalCalls(_)
SortByTotalCalls(seq) ==
  IF seq = << >> THEN << >>
  ELSE InsertSorted(SortByTotalCalls(SubSeq(seq, 1, Len(seq) - 1)), seq[Len(seq)])

getClientUsageData(as) ==
  LET clientMap == BuildClientMap(as)
  IN  SortByTotalCalls([i \in 1..Len(clientMap) |-> ToClientUsage(clientMap[i])])

\* the fields of APIData that getClientUsageData reads besides the series
ApiRecords ==
  [client : { clients[i] : i \in 1..NumClients },
   currentCalls : 0..MaxVolume,
   previousCalls : 0..MaxPrevious]

SeqsUpTo(S, n) == UNION { [1..k -> S] : k \in 0..n }

AggInit ==
  /\ AggAlone
  /\ apis \in SeqsUpTo(ApiRecords, MaxApis)
  /\ clientUsage = << >>
  /\ pc = "idle"

CallGetClientUsageData ==
  /\ pc = "idle"
  /\ clientUsage' = getClientUsageData(apis)
  /\ pc' = "done"
  /\ UNCHANGED << apis, notAgg >>

AggNext == CallGetClientUsageData

SpecAgg == AggInit /\ [][AggNext]_vars

Members(c) == SelectSeq(apis, LAMBDA a : a.client = c)
FirstIndex(c) == CHOOSE i \in 1..Len(apis) :
                   apis[i].client = c /\ \A j \in 1..(i - 1) : apis[j].client # c

\* C2: the trend of every client group is (totalCalls - previousCalls) /
\* previousCalls * 100 over the group's summed volumes when the summed
\* previousCalls is positive, and 0 when it is 0.
C2_GuardedTrend ==
  pc = "done" =>
    \A i \in 1..Len(clientUsage) :
      LET g    == clientUsage[i]
          prev == SumOf(Members(g.client), "previousCalls")
      IN  IF prev > 0
          THEN g.trend = JSMul(JSDiv(g.totalCalls - prev, prev), 100, 0)
          ELSE g.trend.kind = "zero"

\* C5: one group per distinct client, every record counted in exactly one
\* group, each group's totalCalls the sum of its members' currentCalls, and
\* the totals of the groups add up to the total of the records.
C5_GroupCompleteness ==
  pc = "done" =>
    /\ \A i, j \in 1..Len(clientUsage) :
         clientUsage[i].client = clientUsage[j].client => i = j
    /\ { clientUsage[i].client : i \in 1..Len(clientUsage) }
         = { apis[i].client : i \in 1..Len(apis) }
    /\ \A i \in 1..Len(clientUsage) :
         /\ clientUsage[i].apiCount = Len(Members(clientUsage[i].client))
         /\ clientUsage[i].totalCalls
              = SumOf(Members(clientUsage[i].client), "currentCalls")
    /\ SumOf(clientUsage, "apiCount") = Len(apis)
    /\ SumOf(clientUsage, "totalCalls") = SumOf(apis, "currentCalls")

\* two groups, one of them with two member records and a non-zero total
C5_Witness ==
  /\ pc = "done"
  /\ Len(clientUsage) >= 2
  /\ \E i \in 1..Len(clientUsage) :
       clientUsage[i].apiCount >= 2 /\ clientUsage[i].totalCalls >= 2

\* C6: the groups come in non-increasing order of totalCalls, and groups with
\* equal totalCalls in the order in which their client first occurs in the input.
C6_OrderedByTotalCalls ==
  pc = "done" =>
    \A i, j \in 1..Len(clientUsage) :
      i < j =>
        /\ clientUsage[i].totalCalls >= clientUsage[j].totalCalls
        /\ clientUsage[i].totalCalls = clientUsage[j].totalCalls
             => FirstIndex(clientUsage[i].client) < FirstIndex(clientUsage[j].client)

\* three groups: the first-met client has the smallest total and the other two tie
C6_Witness ==
  /\ pc = "done"
  /\ Len(clientUsage) = 3
  /\ clientUsage[1].totalCalls = clientUsage[2].totalCalls
  /\ clientUsage[2].totalCalls > clientUsage[3].totalCalls
  /\ FirstIndex(clientUsage[3].client) = 1

(***************************************************************************)
(* generateStatusBreakdown and the random numbers of the generator        *)
(***************************************************************************)
\* 0.85 + Math.random() * 0.12
SuccessRates == { << 85, 100 >>, << 96, 100 >> }
\* 0.2 + Math.random() * 0.3
SourceDownShares == { << 25, 100 >>, << 49, 100 >> }
\* 0.1 + Math.random() * 0.3
NotFoundShares == { << 25, 100 >>, << 39, 100 >> }
\* 0.3 + Math.random() * 0.3
ThresholdFactors == { << 3, 10 >>, << 59, 100 >> }
\* 15 + Math.random() * 15
RelativeDraws == { << 15, 1 >>, << 154, 10 >>, << 295, 10 >> }

Max(a, b) == IF a >= b THEN a ELSE b

\* the breakdown with the notFound share taken of all calls, not of the remaining ones
generateStatusBreakdown_OfTotal(totalCalls, successRate, sourceDownShare, notFoundShare) ==
  LET success    == MathRound(JSMul(successRate, totalCalls, 0))
      remaining  == totalCalls - success
      sourceDown == MathRound(JSMul(sourceDownShare, remaining, 0))
      notFound   == MathRound(JSMul(notFoundShare, totalCalls, 0))
      otherError == Max(0, remaining - sourceDown - notFound)
  IN  [success |-> success, sourceDown |-> sourceDown, notFound |-> notFound,
       otherError |-> otherError]

\* generateStatusBreakdown, the three random numbers being arguments
generateStatusBreakdown(totalCalls, successRate, sourceDownShare, notFoundShare) ==
  LET success    == MathRound(JSMul(successRate, totalCalls, 0))
      remaining  == totalCalls - success
      sourceDown == MathRound(JSMul(sourceDownShare, remaining, 0))
      notFound   == MathRound(JSMul(notFoundShare, remaining, 0))
      otherError == Max(0, remaining - sourceDown - notFound)
  IN  [success |-> success, sourceDown |-> sourceDown, notFound |-> notFound,
       otherError |-> otherError]

(***************************************************************************)
(* Index page: snapshot, search text and the memos derived from them       *)
(***************************************************************************)
\* the letters A, a, e and z
QueryChars == {65, 97, 101, 122}
Queries == SeqsUpTo(QueryChars, MaxQueryLen)

\* record i + 1 of generateMockAPIs: name and client go round their arrays,
\* the volumes are the rounded positive dailyData values
GeneratedApi(i, cur, prev, st, sb) ==
  [id |-> i + 1,
   name |-> apiNames[(i % Len(apiNames)) + 1],
   client |-> clients[(i % NumClients) + 1],
   status |-> st,
   currentCalls |-> cur,
   previousCalls |-> prev,
   statusBreakdown |-> sb]

\* the breakdowns generateStatusBreakdown(cur) can return
Breakdowns(cur) ==
  { generateStatusBreakdown(cur, JSDiv(r[1], r[2]), JSDiv(a[1], a[2]), JSDiv(b[1], b[2])) :
      r \in SuccessRates, a \in SourceDownShares, b \in NotFoundShares }

\* the records pass i of the loop can push
GeneratedApis(i) ==
  UNION { { GeneratedApi(i, cur, prev, st, sb) :
              prev \in 1..MaxVolume, st \in Statuses, sb \in Breakdowns(cur) } :
          cur \in 1..MaxVolume }

RECURSIVE SnapshotsOf(_)
SnapshotsOf(n) ==
  IF n = 0 THEN { << >> }
  ELSE { Append(s, r) : s \in SnapshotsOf(n - 1), r \in GeneratedApis(n - 1) }

Snapshots == SnapshotsOf(NumApis)

\* seq.reduce((s, a) => s + a.currentCalls, 0)
RECURSIVE SumCurrentCalls(_)
SumCurrentCalls(seq) ==
  IF seq = << >> THEN 0 ELSE Head(seq).currentCalls + SumCurrentCalls(Tail(seq))

\* seq.reduce((s, a) => s + a.statusBreakdown.success, 0)
RECURSIVE SumSuccess(_)
SumSuccess(seq) ==
  IF seq = << >> THEN 0 ELSE Head(seq).statusBreakdown.success + SumSuccess(Tail(seq))

\* the number the Success Rate card formats with toFixed(1)
SuccessRate(as) == JSMul(JSDiv(SumSuccess(as), SumCurrentCalls(as)), 100, 0)

\* the four counts of a breakdown added up
BreakdownTotal(sb) == sb.success + sb.sourceDown + sb.notFound + sb.otherError

\* StatusBreakdownChart: the number behind percent, (value / total) * 100
BreakdownPercent(sb, category) == JSMul(JSDiv(sb[category], BreakdownTotal(sb)), 100, 0)

\* VendorAPIsTab: success / (the four counts) * 100
VendorSuccessRate(sb) == JSMul(JSDiv(sb.success, BreakdownTotal(sb)), 100, 0)

\* the filteredAPIs memo
FilterAPIs(all, query) ==
  IF query = << >> THEN all
  ELSE LET q == ToLowerCase(query)
       IN  SelectSeq(all, LAMBDA a : \/ Includes(ToLowerCase(a.name), q)
                                     \/ Includes(ToLowerCase(a.client), q))

\* a DashboardView; a field the type leaves out is undefined: << >> for a
\* string, 0 for an id, FALSE for the flag
ViewOf(type, clientName, apiId, fromClient, fromAlert) ==
  [type |-> type, clientName |-> clientName, apiId |-> apiId,
   fromClient |-> fromClient, fromAlert |-> fromAlert]

Overview == ViewOf("overview", << >>, 0, << >>, FALSE)

IndexInit ==
  /\ IndexAlone
  /\ mockAPIs \in Snapshots
  /\ searchQuery = << >>
  /\ filteredAPIs = FilterAPIs(mockAPIs, << >>)
  /\ filteredStats = getAggregatedStats(filteredAPIs)
  /\ successRateCard = SuccessRate(filteredAPIs)
  /\ view = Overview

\* onSearchChange={setSearchQuery}, then the render that follows
SetSearchQuery ==
  \E q \in Queries :
    /\ searchQuery' = q
    /\ filteredAPIs' = FilterAPIs(mockAPIs, q)
    /\ filteredStats' = getAggregatedStats(filteredAPIs')
    /\ successRateCard' = SuccessRate(filteredAPIs')
    /\ UNCHANGED << mockAPIs, view, notIndex >>

\* the rows of ClientList: the clients of getClientUsageData(filteredAPIs)
ListedClients_Any(as) == { clients[i] : i \in 1..Len(clients) }

ListedClients(as) == { as[i].client : i \in 1..Len(as) }

\* the ids of the rows of a list of records
ListedAPIs(as) == { as[i].id : i \in 1..Len(as) }

\* the Alerts card is clickable while alertCount > 0
OpenAlerts ==
  /\ view.type = "overview"
  /\ filteredStats.warningCount + filteredStats.criticalCount > 0
  /\ view' = ViewOf("alert-detail", << >>, 0, << >>, FALSE)
  /\ UNCHANGED << mockAPIs, searchQuery, filteredAPIs, filteredStats, successRateCard,
                  notIndex >>

OpenRevenue ==
  /\ view.type = "overview"
  /\ view' = ViewOf("revenue-detail", << >>, 0, << >>, FALSE)
  /\ UNCHANGED << mockAPIs, searchQuery, filteredAPIs, filteredStats, successRateCard,
                  notIndex >>

\* onSelectClient of ClientList, which lists filteredClientData
SelectClient ==
  /\ view.type = "overview"
  /\ \E name \in ListedClients(filteredAPIs) :
       view' = ViewOf("client-detail", name, 0, << >>, FALSE)
  /\ UNCHANGED << mockAPIs, searchQuery, filteredAPIs, filteredStats, successRateCard,
                  notIndex >>

\* onSelectAPI of APIRankingList, which lists filteredSortedAPIs
SelectRankedAPI ==
  /\ view.type = "overview"
  /\ \E id \in ListedAPIs(filteredAPIs) :
       view' = ViewOf("api-detail", << >>, id, << >>, FALSE)
  /\ UNCHANGED << mockAPIs, searchQuery, filteredAPIs, filteredStats, successRateCard,
                  notIndex >>

\* onSelectAPI of AlertDetailView, which lists the warning and critical
\* records of mockAPIs
SelectAlertAPI ==
  /\ view.type = "alert-detail"
  /\ \E id \in ListedAPIs(SelectSeq(mockAPIs,
                       LAMBDA a : a.status = "warning" \/ a.status = "critical")) :
       view' = ViewOf("api-detail", << >>, id, << >>, TRUE)
  /\ UNCHANGED << mockAPIs, searchQuery, filteredAPIs, filteredStats, successRateCard,
                  notIndex >>

\* onSelectAPI of ClientDetailView, which lists the records of the client
SelectClientAPI ==
  /\ view.type = "client-detail"
  /\ \E id \in ListedAPIs(SelectSeq(mockAPIs, LAMBDA a : a.client = view.clientName)) :
       view' = ViewOf("api-detail", << >>, id, view.clientName, FALSE)
  /\ UNCHANGED << mockAPIs, searchQuery, filteredAPIs, filteredStats, successRateCard,
                  notIndex >>

BackOf_Overview(v) == Overview

\* the view the onBack of a view sets
BackOf(v) ==
  IF v.type = "api-detail"
  THEN (IF v.fromAlert THEN ViewOf("alert-detail", << >>, 0, << >>, FALSE)
        ELSE IF v.fromClient # << >>
        THEN ViewOf("client-detail", v.fromClient, 0, << >>, FALSE)
        ELSE Overview)
  ELSE Overview

\* the back button of the four views that have one
Back ==
  /\ view.type # "overview"
  /\ view' = BackOf(view)
  /\ UNCHANGED << mockAPIs, searchQuery, filteredAPIs, filteredStats, successRateCard,
                  notIndex >>

Next ==
  \/ SetSearchQuery
  \/ OpenAlerts
  \/ OpenRevenue
  \/ SelectClient
  \/ SelectRankedAPI
  \/ SelectAlertAPI
  \/ SelectClientAPI
  \/ Back

Init == IndexInit

Spec == Init /\ [][Next]_vars

\* C1: totalChange is (totalCalls - previousTotalCalls) / previousTotalCalls
\* * 100 when previousTotalCalls > 0 and 0, never NaN or Infinity, when
\* previousTotalCalls = 0, also for the empty result of a search.
C1_GuardedTotalChange ==
  LET t == SumOf(filteredAPIs, "currentCalls")
      p == SumOf(filteredAPIs, "previousCalls")
  IN  /\ filteredStats.totalCalls = t
      /\ filteredStats.previousTotalCalls = p
      /\ IF p > 0
         THEN filteredStats.totalChange = JSMul(JSDiv(t - p, p), 100, 0)
         ELSE filteredStats.totalChange.kind = "zero"

(***************************************************************************)
(* Deterministic split (UsageChart.tsx, APIConsumptionChart)               *)
(*                                                                         *)
(* A 32-bit integer is an Int in -2^31 .. 2^31 - 1.  The intermediate      *)
(* results of the hash, which a double holds exactly, are pairs            *)
(* << hi, lo >> standing for hi * 2^16 + lo with lo in 0 .. 2^16 - 1.      *)
(***************************************************************************)
MaxKeyLen == 5
MaxValue == 5

\* the code units of 1, L and U+3D98; << 15768, 15768, 76, 15768, 76 >> hashes to
\* -2^31, and no shorter string does
KeyChars == {49, 76, 15768}
Keys == SeqsUpTo(KeyChars, MaxKeyLen)

Half == 2 ^ 16
MinInt32 == -2147483647 - 1

Wide(n) == << n \div Half, n % Half >>
WideNorm(hi, lo) == << hi + (lo \div Half), lo % Half >>
WideAdd(x, y) == WideNorm(x[1] + y[1], x[2] + y[2])
WideSub(x, y) == WideNorm(x[1] - y[1], x[2] - y[2])
WideMul(x, k) == WideNorm(x[1] * k, x[2] * k)
WideAbs(x) == IF x[1] < 0 THEN WideSub(<< 0, 0 >>, x) ELSE x
\* x % m for a non-negative x and a small m
WideMod(x, m) == ((x[1] % m) * (Half % m) + (x[2] % m)) % m

\* ToInt32: the value modulo 2^32, in the signed range
ToInt32(x) ==
  LET h == x[1] % Half
  IN  (IF h >= Half \div 2 THEN h - Half ELSE h) * Half + x[2]

\* hash << 5
ShiftLeft5(hash) == ToInt32(WideMul(Wide(hash), 32))

\* the step with (hash << 5) + hash, the multiplier 33 of another well-known hash
HashStep_Plus(hash, charCode) ==
  ToInt32(WideAdd(WideAdd(Wide(ShiftLeft5(hash)), Wide(hash)), Wide(charCode)))

\* hash = ((hash << 5) - hash) + key.charCodeAt(i); hash |= 0;
HashStep(hash, charCode) ==
  ToInt32(WideAdd(WideSub(Wide(ShiftLeft5(hash)), Wide(hash)), Wide(charCode)))

\* the loop from position i on, hash being the value the earlier passes left
RECURSIVE HashLoop(_, _, _)
HashLoop(hash, k, i) ==
  IF i > Len(k) THEN hash
  ELSE LET next == HashStep(hash, k[i])
       IN  IF next \in Int THEN HashLoop(next, k, i + 1) ELSE 0

\* let hash = 0; for (let i = 0; i < key.length; i++) { ... }
HashOf(k) == HashLoop(0, k, 1)

\* hash % 20 without Math.abs: the remainder takes the sign of hash
RatioIndex_NoAbs(hash) ==
  IF hash < 0 THEN -WideMod(WideAbs(Wide(hash)), 20) ELSE hash % 20

\* Math.abs(hash) % 20
RatioIndex(hash) == WideMod(WideAbs(Wide(hash)), 20)

\* const ratio = 0.3 + (Math.abs(hash) % 20) / 100
Ratio(k) == JSAdd(JSDiv(3, 10), JSDiv(RatioIndex(HashOf(k)), 100))

\* the split with both parts rounded on their own
splitCalls_BothRounded(calls, k) ==
  LET ratio    == Ratio(k)
      internal == MathRound(JSMul(ratio, calls, 0))
      rest     == JSAdd(FromInt(1), JSNeg(ratio))
  IN  [internal |-> internal, external |-> MathRound(JSMul(rest, calls, 0))]

\* UsageChart.tsx
splitCalls(calls, k) ==
  LET ratio    == Ratio(k)
      internal == MathRound(JSMul(ratio, calls, 0))
  IN  [internal |-> internal, external |-> calls - internal]

\* the floor of a non-negative double
MathFloor(x) ==
  IF x.kind = "zero" \/ x.exp <= 0 THEN 0 ELSE BitsToInt(SubSeq(x.mant, 1, x.exp))

\* the copy with Math.floor for Math.round
splitValue_Floor(val, k) ==
  LET hash     == HashOf(k)
      ratio    == JSAdd(JSDiv(3, 10), JSDiv(RatioIndex(hash), 100))
      internal == MathFloor(JSMul(ratio, val, 0))
  IN  [internal |-> internal, external |-> val - internal]

\* APIConsumptionChart: the same function under another name
splitValue(val, k) ==
  LET hash     == HashOf(k)
      ratio    == JSAdd(JSDiv(3, 10), JSDiv(RatioIndex(hash), 100))
      internal == MathRound(JSMul(ratio, val, 0))
  IN  [internal |-> internal, external |-> val - internal]

SplitInit ==
  /\ SplitAlone
  /\ key \in Keys
  /\ value \in 0..MaxValue
  /\ callsSplit = << >>
  /\ valueSplit = << >>

\* a chart of UsageChart splits the count
CallSplitCalls ==
  /\ callsSplit' = splitCalls(value, key)
  /\ UNCHANGED << key, value, valueSplit, notSplit >>

\* the consumption chart splits the count
CallSplitValue ==
  /\ valueSplit' = splitValue(value, key)
  /\ UNCHANGED << key, value, callsSplit, notSplit >>

SplitNext == CallSplitCalls \/ CallSplitValue

SpecSplit == SplitInit /\ [][SplitNext]_vars

\* C7: the two parts sum to value, the first part is round(value * ratio)
\* and the second the rest.
C7_SplitExact ==
  /\ callsSplit # << >> =>
       /\ callsSplit.internal + callsSplit.external = value
       /\ callsSplit.internal = MathRound(JSMul(Ratio(key), value, 0))
       /\ callsSplit.external >= 0
  /\ valueSplit # << >> =>
       /\ valueSplit.internal + valueSplit.external = value
       /\ valueSplit.internal = MathRound(JSMul(Ratio(key), value, 0))
       /\ valueSplit.external >= 0

\* value * ratio lies exactly between two integers and is rounded up
C7_Witness ==
  /\ callsSplit # << >> /\ valueSplit # << >>
  /\ value = 5
  /\ RatioIndex(HashOf(key)) = 0
  /\ callsSplit.internal = 2 /\ callsSplit.external = 3

LessEq(x, y) == JSLess(x, y) \/ JSEq(x, y)

\* C9: the ratio 0.3 + (|hash| mod 20) / 100 lies in [0.30, 0.49] for every
\* key, also when the hash is negative or -2^31.
C9_RatioRange ==
  /\ LessEq(JSDiv(30, 100), Ratio(key))
  /\ LessEq(Ratio(key), JSDiv(49, 100))

\* the key hashes to -2^31, so the ratio is 0.38, and 5 has been split into 2 and 3
C9_Witness ==
  /\ HashOf(key) = MinInt32
  /\ value = 5
  /\ callsSplit # << >> /\ callsSplit.internal = 2

\* hash * 31 + charCode wrapped to the signed 32-bit range
Wrap31(hash, charCode) == ToInt32(WideAdd(WideMul(Wide(hash), 31), Wide(charCode)))

RECURSIVE RecurrenceHash(_)
RecurrenceHash(k) ==
  IF k = << >> THEN 0 ELSE Wrap31(RecurrenceHash(SubSeq(k, 1, Len(k) - 1)), k[Len(k)])

\* C10: the hash of the code equals, for every key, the recurrence
\* hash = hash * 31 + charCode wrapped to 32 bits at each step.
C10_HashRecurrence ==
  /\ HashOf(key) = RecurrenceHash(key)
  /\ \A ch \in KeyChars : HashStep(HashOf(key), ch) = Wrap31(HashOf(key), ch)

\* the hash has wrapped: it is negative although every character is positive
C10_Witness ==
  /\ Len(key) = MaxKeyLen
  /\ HashOf(key) < 0
  /\ valueSplit # << >>

(***************************************************************************)
(* Daily status roll-up of APIConsumptionChart (ClientDetailView.tsx)      *)
(*                                                                         *)
(* A date is the string toISOString().split('T')[0] gives, a sequence of   *)
(* code units; on such strings localeCompare is the order of the code      *)
(* units.                                                                  *)
(***************************************************************************)
MaxChartApis == 2
MaxOtherError == 2

\* the counts a timeline entry is drawn from
SuccessCounts == {7}
SourceDownCounts == {1}
NotFoundCounts == {2}

\* the field names appended to the date to key the split
FieldKey ==
  [success    |-> << 115, 117, 99, 99, 101, 115, 115 >>,
   sourceDown |-> << 115, 111, 117, 114, 99, 101, 68, 111, 119, 110 >>,
   notFound   |-> << 110, 111, 116, 70, 111, 117, 110, 100 >>,
   timeout    |-> << 116, 105, 109, 101, 111, 117, 116 >>,
   otherError |-> << 111, 116, 104, 101, 114, 69, 114, 114, 111, 114 >>]

UsageSources == {"overall", "internal", "external"}

\* Math.round(day.otherError * 0.4)
TimeoutPart(otherError) == MathRound(JSMul(JSDiv(4, 10), otherError, 0))

\* position of the entry of dataMap with this date, 0 if there is none
DayIndex(dataMap, date) ==
  IF \E i \in 1..Len(dataMap) : dataMap[i].date = date
  THEN CHOOSE i \in 1..Len(dataMap) : dataMap[i].date = date
  ELSE 0

\* one pass of the inner forEach: dataMap.get(day.date) || zeros, the sums, dataMap.set
DayAdd(dataMap, day) ==
  LET i == DayIndex(dataMap, day.date)
      existing == IF i = 0
                  THEN [date |-> day.date, success |-> 0, sourceDown |-> 0, notFound |-> 0,
                        timeout |-> 0, otherError |-> 0, total |-> 0]
                  ELSE dataMap[i]
      timeoutPart == TimeoutPart(day.otherError)
      updated == [date       |-> existing.date,
                  success    |-> existing.success + day.success,
                  sourceDown |-> existing.sourceDown + day.sourceDown,
                  notFound   |-> existing.notFound + day.notFound,
                  timeout    |-> existing.timeout + timeoutPart,
                  otherError |-> existing.otherError + (day.otherError - timeoutPart),
                  total      |-> existing.total + (day.success + day.sourceDown
                                                   + day.notFound + day.otherError)]
  IN  IF i = 0 THEN Append(dataMap, updated) ELSE [dataMap EXCEPT ![i] = updated]

RECURSIVE TimelineAdd(_, _)
TimelineAdd(dataMap, timeline) ==
  IF timeline = << >> THEN dataMap
  ELSE TimelineAdd(DayAdd(dataMap, Head(timeline)), Tail(timeline))

RECURSIVE BuildDayMap(_, _)
BuildDayMap(dataMap, as) ==
  IF as = << >> THEN dataMap
  ELSE BuildDayMap(TimelineAdd(dataMap, Head(as).statusTimeline), Tail(as))

\* the stable sort by a.date.localeCompare(b.date)
RECURSIVE InsertByDate(_, _)
InsertByDate(sorted, x) ==
  IF sorted = << >> THEN << x >>
  ELSE IF StringLess(x.date, Head(sorted).date) THEN << x >> \o sorted
  ELSE << Head(sorted) >> \o InsertByDate(Tail(sorted), x)

RECURSIVE SortByDate(_)
SortByDate(seq) ==
  IF seq = << >> THEN << >>
  ELSE InsertByDate(SortByDate(SubSeq(seq, 1, Len(seq) - 1)), seq[Len(seq)])

DailyStatusData(as) == SortByDate(BuildDayMap(<< >>, as))

\* the largest count a day of the roll-up can hold
MaxDayCount ==
  MaxChartApis * (CHOOSE n \in SuccessCounts \cup SourceDownCounts \cup NotFoundCounts
                                \cup {MaxOtherError} :
                    \A m \in SuccessCounts \cup SourceDownCounts \cup NotFoundCounts
                                \cup {MaxOtherError} : m <= n)

\* splitValue(count, date + field), tabulated for the days and fields of the chart
SplitOfDay ==
  [date \in { ChartDays[i] : i \in 1..Len(ChartDays) }, field \in DOMAIN FieldKey,
   count \in 0..MaxDayCount |-> splitValue(count, date \o FieldKey[field])]

\* the entry of filteredData for one day when usageSource is not 'overall'
PickDay(d, pick) ==
  LET success    == SplitOfDay[d.date, "success", d.success][pick]
      sourceDown == SplitOfDay[d.date, "sourceDown", d.sourceDown][pick]
      notFound   == SplitOfDay[d.date, "notFound", d.notFound][pick]
      timeout    == SplitOfDay[d.date, "timeout", d.timeout][pick]
      otherError == SplitOfDay[d.date, "otherError", d.otherError][pick]
  IN  [date |-> d.date, success |-> success, sourceDown |-> sourceDown,
       notFound |-> notFound, timeout |-> timeout, otherError |-> otherError,
       total |-> success + sourceDown + notFound + timeout + otherError]

FilteredData(daily, source) ==
  IF source # "overall"
  THEN [i \in 1..Len(daily) |->
          PickDay(daily[i], IF source = "internal" THEN "internal" ELSE "external")]
  ELSE daily

\* the timelines generateStatusTimeline builds: one entry per day, oldest first
Timelines ==
  { [i \in 1..Len(ChartDays) |->
       [date |-> ChartDays[i], success |-> f[i].success, sourceDown |-> f[i].sourceDown,
        notFound |-> f[i].notFound, otherError |-> f[i].otherError]] :
      f \in [1..Len(ChartDays) ->
               [success : SuccessCounts, sourceDown : SourceDownCounts,
                notFound : NotFoundCounts, otherError : 0..MaxOtherError]] }

ChartInit ==
  /\ ChartAlone
  /\ chartApis \in SeqsUpTo([statusTimeline : Timelines], MaxChartApis)
  /\ usageSource = "overall"
  /\ dailyStatusData = DailyStatusData(chartApis)
  /\ filteredData = FilteredData(dailyStatusData, usageSource)

\* the header switches the usage source; the chart renders again
SetUsageSource ==
  \E source \in UsageSources :
    /\ usageSource' = source
    /\ filteredData' = FilteredData(dailyStatusData, source)
    /\ UNCHANGED << chartApis, dailyStatusData, notChart >>

ChartNext == SetUsageSource

SpecChart == ChartInit /\ [][ChartNext]_vars

\* C11: in every day entry of the roll-up, as computed and as shown for the
\* chosen usage source, total = success + sourceDown + notFound + otherError.
C11_TotalIsFourFieldSum ==
  /\ \A i \in 1..Len(dailyStatusData) :
       dailyStatusData[i].total
         = dailyStatusData[i].success + dailyStatusData[i].sourceDown
           + dailyStatusData[i].notFound + dailyStatusData[i].otherError
  /\ \A i \in 1..Len(filteredData) :
       filteredData[i].total
         = filteredData[i].success + filteredData[i].sourceDown
           + filteredData[i].notFound + filteredData[i].otherError

(***************************************************************************)
(* generateMockAPIs (lib/mockData.ts): one pass of the loop and the return *)
(*                                                                         *)
(* A value of Math.random() enters through the number it produces: a rate  *)
(* or a threshold is drawn as the double nearest n / d for a pair          *)
(* << n, d >>.  The volumes are scaled down from the tens of thousands of  *)
(* generateDailyData.  The trend field and the series are left out.        *)
(***************************************************************************)
MaxGenCalls == 14

\* the passes of the loop that are followed: i = 0, and one of those the demo
\* statuses are written to
GenIndexes == {0, 3}

\* the statuses written after the loop, by index
StatusOverrides ==
  [i \in {3, 7, 12, 18, 25} |-> IF i \in {3, 12, 25} THEN "warning" ELSE "critical"]

\* the record pushed by pass i of the loop
PushedRecord(i, currentCalls, previousCalls, factor, relativeThreshold, breakdown) ==
  LET threshold == MathRound(JSMul(factor, currentCalls, 0))
  IN  [id |-> i + 1,
       name |-> apiNames[(i % Len(apiNames)) + 1],
       client |-> clients[(i % Len(clients)) + 1],
       status |-> determineStatusAt(currentCalls, previousCalls, threshold, relativeThreshold),
       currentCalls |-> currentCalls,
       previousCalls |-> previousCalls,
       threshold |-> threshold,
       relativeThreshold |-> MathRound(relativeThreshold),
       statusBreakdown |-> breakdown]

GenInit == GenAlone /\ generated = << >> /\ genPc = "start"

\* one pass of the loop
PushRecord ==
  /\ genPc = "start"
  /\ \E i \in GenIndexes, currentCalls \in 1..MaxGenCalls, previousCalls \in 1..MaxGenCalls,
        f \in ThresholdFactors, r \in RelativeDraws,
        sr \in SuccessRates, sd \in SourceDownShares, nf \in NotFoundShares :
       generated' = PushedRecord(i, currentCalls, previousCalls, JSDiv(f[1], f[2]),
                                 JSDiv(r[1], r[2]),
                                 generateStatusBreakdown(currentCalls, JSDiv(sr[1], sr[2]),
                                                         JSDiv(sd[1], sd[2]),
                                                         JSDiv(nf[1], nf[2])))
  /\ genPc' = "pushed"
  /\ UNCHANGED notGen

\* the loop is over: the demo statuses are written and apis is returned
ReturnApis ==
  /\ genPc = "pushed"
  /\ generated' = IF generated.id - 1 \in DOMAIN StatusOverrides
                  THEN [generated EXCEPT !.status = StatusOverrides[generated.id - 1]]
                  ELSE generated
  /\ genPc' = "returned"
  /\ UNCHANGED notGen

GenNext == PushRecord \/ ReturnApis

SpecGen == GenInit /\ [][GenNext]_vars

\* C12: the four counts of statusBreakdown are non-negative and sum to
\* currentCalls, so the clamp of otherError at 0 never changes its value.
C12_BreakdownSum ==
  genPc # "start" =>
    LET b == generated.statusBreakdown
    IN  /\ b.success >= 0 /\ b.sourceDown >= 0 /\ b.notFound >= 0 /\ b.otherError >= 0
        /\ b.success + b.sourceDown + b.notFound + b.otherError = generated.currentCalls

\* the two shares take up all the remaining calls: otherError is 0 unclamped
C12_Witness ==
  /\ genPc = "returned"
  /\ generated.statusBreakdown.sourceDown > 0
  /\ generated.statusBreakdown.notFound > 0
  /\ generated.statusBreakdown.otherError = 0

\* C13: the stored status of a returned record is the classifier applied to
\* its stored currentCalls, previousCalls, threshold and relativeThreshold.
C13_StatusIsClassifier ==
  genPc = "returned" =>
    generated.status = determineStatus(generated.currentCalls, generated.previousCalls,
                                       generated.threshold, generated.relativeThreshold)

(***************************************************************************)
(* RevenueDetailView: revenue lost to source-down calls                    *)
(***************************************************************************)
MaxRevenueApis == 3

\* const RATE_PER_CALL = 0.012
RATE_PER_CALL == JSDiv(12, 1000)

\* the clients of the records shown
RevenueClients == { clients[1], clients[2] }

\* the source-down counts of a record: in statusBreakdown, and day by day
\* in statusTimeline over ChartDays
SourceDownHistories ==
  { [breakdown |-> 0, timeline |-> << 0, 0 >>],
    [breakdown |-> 0, timeline |-> << 1, 0 >>],
    [breakdown |-> 1, timeline |-> << 1, 0 >>],
    [breakdown |-> 3, timeline |-> << 2, 1 >>] }

\* the record at index i of the apis prop, with the fields the view reads
RevenueApi(i, client, history) ==
  [id |-> i,
   name |-> apiNames[((i - 1) % Len(apiNames)) + 1],
   client |-> client,
   statusBreakdown |-> [sourceDown |-> history.breakdown],
   statusTimeline |-> [d \in 1..Len(ChartDays) |->
                         [date |-> ChartDays[d], sourceDown |-> history.timeline[d]]]]

RevenueInputs ==
  UNION { { [i \in 1..n |-> RevenueApi(i, f[i].client, f[i].history)] :
              f \in [1..n -> [client : RevenueClients, history : SourceDownHistories]] } :
          n \in 0..MaxRevenueApis }

\* count / RATE_PER_CALL
LossOf_Divided(count) == JSDivide(FromInt(count), RATE_PER_CALL)

\* count * RATE_PER_CALL
LossOf(count) == JSMul(RATE_PER_CALL, count, 0)

\* filteredAPIs.reduce((sum, api) => sum + api.statusBreakdown.sourceDown * RATE_PER_CALL, 0)
RECURSIVE RevenueLossCard(_)
RevenueLossCard(as) ==
  IF as = << >> THEN Zero(1)
  ELSE JSAdd(RevenueLossCard(SubSeq(as, 1, Len(as) - 1)),
             LossOf(as[Len(as)].statusBreakdown.sourceDown))

\* seq.reduce((s, a) => s + a.revenueLoss, 0)
RECURSIVE SumLoss(_)
SumLoss(seq) ==
  IF seq = << >> THEN Zero(1)
  ELSE JSAdd(SumLoss(SubSeq(seq, 1, Len(seq) - 1)), seq[Len(seq)].revenueLoss)

\* the stable sort by b.revenueLoss - a.revenueLoss
RECURSIVE InsertByLoss(_, _)
InsertByLoss(sorted, x) ==
  IF sorted = << >> THEN << x >>
  ELSE IF JSLess(Head(sorted).revenueLoss, x.revenueLoss) THEN << x >> \o sorted
  ELSE << Head(sorted) >> \o InsertByLoss(Tail(sorted), x)

RECURSIVE SortByLoss(_)
SortByLoss(seq) ==
  IF seq = << >> THEN << >>
  ELSE InsertByLoss(SortByLoss(SubSeq(seq, 1, Len(seq) - 1)), seq[Len(seq)])

\* the entry of apiRevenueLoss for one record
ApiLoss(a) ==
  [api |-> a,
   totalSourceDown |-> a.statusBreakdown.sourceDown,
   revenueLoss |-> LossOf(a.statusBreakdown.sourceDown),
   perDayLoss |-> [d \in 1..Len(a.statusTimeline) |->
                     [date |-> a.statusTimeline[d].date,
                      sourceDown |-> a.statusTimeline[d].sourceDown,
                      revenueLoss |-> LossOf(a.statusTimeline[d].sourceDown)]]]

ApiRevenueLoss(as) ==
  SortByLoss(SelectSeq([i \in 1..Len(as) |-> ApiLoss(as[i])],
                       LAMBDA a : a.totalSourceDown > 0))

\* one pass of the forEach of clientRevenue with = in place of +=
ClientLossAdd_Overwrite(map, a) ==
  LET i == MapIndex(map, a.api.client)
      updated == [client |-> a.api.client, revenueLoss |-> a.revenueLoss,
                  sourceDown |-> a.totalSourceDown, apiCount |-> 1]
  IN  IF i = 0 THEN Append(map, updated) ELSE [map EXCEPT ![i] = updated]

\* one pass of the forEach of clientRevenue
ClientLossAdd(map, a) ==
  LET i == MapIndex(map, a.api.client)
      existing == IF i = 0
                  THEN [client |-> a.api.client, revenueLoss |-> Zero(1),
                        sourceDown |-> 0, apiCount |-> 0]
                  ELSE map[i]
      updated == [client |-> existing.client,
                  revenueLoss |-> JSAdd(existing.revenueLoss, a.revenueLoss),
                  sourceDown |-> existing.sourceDown + a.totalSourceDown,
                  apiCount |-> existing.apiCount + 1]
  IN  IF i = 0 THEN Append(map, updated) ELSE [map EXCEPT ![i] = updated]

RECURSIVE BuildClientLoss(_, _)
BuildClientLoss(map, losses) ==
  IF losses = << >> THEN map
  ELSE BuildClientLoss(ClientLossAdd(map, Head(losses)), Tail(losses))

ClientRevenue(losses) == SortByLoss(BuildClientLoss(<< >>, losses))

\* one pass of the inner forEach of dailyChartData
DayLossAdd(dayMap, d) ==
  LET i == DayIndex(dayMap, d.date)
      existing == IF i = 0
                  THEN [date |-> d.date, sourceDown |-> 0, revenueLoss |-> Zero(1)]
                  ELSE dayMap[i]
      updated == [date |-> existing.date,
                  sourceDown |-> existing.sourceDown + d.sourceDown,
                  revenueLoss |-> JSAdd(existing.revenueLoss, d.revenueLoss)]
  IN  IF i = 0 THEN Append(dayMap, updated) ELSE [dayMap EXCEPT ![i] = updated]

RECURSIVE PerDayAdd(_, _)
PerDayAdd(dayMap, perDayLoss) ==
  IF perDayLoss = << >> THEN dayMap
  ELSE PerDayAdd(DayLossAdd(dayMap, Head(perDayLoss)), Tail(perDayLoss))

RECURSIVE BuildDayLoss(_, _)
BuildDayLoss(dayMap, losses) ==
  IF losses = << >> THEN dayMap
  ELSE BuildDayLoss(PerDayAdd(dayMap, Head(losses).perDayLoss), Tail(losses))

DailyChartData(losses) == SortByDate(BuildDayLoss(<< >>, losses))

\* perDayLoss.find(d => d.date === selectedDay): the position, 0 for undefined
FindDay(perDayLoss, day) ==
  IF \E i \in 1..Len(perDayLoss) : perDayLoss[i].date = day
  THEN CHOOSE i \in 1..Len(perDayLoss) :
         perDayLoss[i].date = day /\ \A j \in 1..(i - 1) : perDayLoss[j].date # day
  ELSE 0

\* the map of dayAPIs yields null for a record without a loss on that day
DayIsNull(a, day) ==
  LET i == FindDay(a.perDayLoss, day)
  IN  i = 0 \/ a.perDayLoss[i].sourceDown = 0

\* the entry the map of dayAPIs yields otherwise
DayAPI(a, day) ==
  LET i == FindDay(a.perDayLoss, day)
  IN  [id |-> a.api.id, name |-> a.api.name, client |-> a.api.client,
       sourceDown |-> a.perDayLoss[i].sourceDown,
       revenueLoss |-> a.perDayLoss[i].revenueLoss,
       contribution |-> Zero(1)]

\* null without a selected day (<< >> here), else the entries that are not null
DayAPIs(day, losses) ==
  IF day = << >> THEN << >>
  ELSE LET kept == SelectSeq(losses, LAMBDA a : ~DayIsNull(a, day))
       IN  [i \in 1..Len(kept) |-> DayAPI(kept[i], day)]

\* the share with the quotient taken the other way round
Contribution_Inverse(loss, totalDayLoss) ==
  JSMul(JSDivide(totalDayLoss, loss), 100, 0)

\* totalDayLoss > 0 ? (a.revenueLoss / totalDayLoss) * 100 : 0
Contribution(loss, totalDayLoss) ==
  IF JSLess(Zero(1), totalDayLoss)
  THEN JSMul(JSDivide(loss, totalDayLoss), 100, 0)
  ELSE Zero(1)

DayAPIsWithContribution(items) ==
  LET totalDayLoss == SumLoss(items)
  IN  SortByLoss([i \in 1..Len(items) |->
                    [items[i] EXCEPT !.contribution =
                       Contribution(items[i].revenueLoss, totalDayLoss)]])

RevenueInit ==
  /\ RevenueAlone
  /\ revenueApis \in RevenueInputs
  /\ selectedDay = << >>
  /\ apiRevenueLoss = ApiRevenueLoss(revenueApis)
  /\ totalRevenueLoss = SumLoss(apiRevenueLoss)
  /\ clientRevenue = ClientRevenue(apiRevenueLoss)
  /\ dailyChartData = DailyChartData(apiRevenueLoss)
  /\ dayAPIs = DayAPIs(selectedDay, apiRevenueLoss)
  /\ dayAPIsWithContribution = DayAPIsWithContribution(dayAPIs)
  /\ revenueLoss = RevenueLossCard(revenueApis)

\* a click on a bar of the daily chart
ClickDay ==
  \E i \in 1..Len(dailyChartData) :
    /\ selectedDay' = dailyChartData[i].date
    /\ dayAPIs' = DayAPIs(selectedDay', apiRevenueLoss)
    /\ dayAPIsWithContribution' = DayAPIsWithContribution(dayAPIs')
    /\ UNCHANGED << revenueApis, apiRevenueLoss, totalRevenueLoss, clientRevenue,
                    dailyChartData, revenueLoss, notRevenue >>

\* the drawer of the day is closed
CloseDay ==
  /\ selectedDay # << >>
  /\ selectedDay' = << >>
  /\ dayAPIs' = DayAPIs(selectedDay', apiRevenueLoss)
  /\ dayAPIsWithContribution' = DayAPIsWithContribution(dayAPIs')
  /\ UNCHANGED << revenueApis, apiRevenueLoss, totalRevenueLoss, clientRevenue,
                  dailyChartData, revenueLoss, notRevenue >>

RevenueNext == ClickDay \/ CloseDay

SpecRevenue == RevenueInit /\ [][RevenueNext]_vars

\* items.reduce((s, a) => s + a.contribution, 0)
RECURSIVE SumContribution(_)
SumContribution(seq) ==
  IF seq = << >> THEN Zero(1)
  ELSE JSAdd(SumContribution(SubSeq(seq, 1, Len(seq) - 1)), seq[Len(seq)].contribution)

\* C14 (as the code has it): on a selected day each item's contribution is
\* revenueLoss / (the day's total loss) * 100 when that total is > 0 and 0
\* otherwise, a single item gets exactly 100, and the contributions of the
\* day add up to 100 within a thousandth (the sum is taken in doubles)
C14_ContributionShare ==
  selectedDay # << >> =>
    LET total == SumLoss(dayAPIs)
        n == Len(dayAPIsWithContribution)
        sum == SumContribution(dayAPIsWithContribution)
    IN  /\ n = Len(dayAPIs)
        /\ \A i \in 1..n :
             dayAPIsWithContribution[i].contribution =
               IF JSLess(Zero(1), total)
               THEN JSMul(JSDivide(dayAPIsWithContribution[i].revenueLoss, total), 100, 0)
               ELSE Zero(1)
        /\ n = 1 => dayAPIsWithContribution[1].contribution = FromInt(100)
        /\ n >= 1 => JSLess(JSDiv(99999, 1000), sum) /\ JSLess(sum, JSDiv(100001, 1000))

\* a day with two items whose shares do not add up to exactly 100
C14_Witness ==
  /\ selectedDay # << >>
  /\ Len(dayAPIsWithContribution) = 2
  /\ dayAPIsWithContribution[1].sourceDown = 2
  /\ dayAPIsWithContribution[2].sourceDown = 1
  /\ SumContribution(dayAPIsWithContribution) # FromInt(100)

\* C14 (as stated): whenever the day's total loss is > 0 the contributions
\* sum to 100
C14_SumsToHundred ==
  (selectedDay # << >> /\ JSLess(Zero(1), SumLoss(dayAPIs))) =>
    SumContribution(dayAPIsWithContribution) = FromInt(100)

\* the source-down calls of all records of the apis prop on one date
RECURSIVE SourceDownOn(_, _)
SourceDownOn(as, date) ==
  IF as = << >> THEN 0
  ELSE LET t == Head(as).statusTimeline
           i == DayIndex(t, date)
       IN  (IF i = 0 THEN 0 ELSE t[i].sourceDown) + SourceDownOn(Tail(as), date)

\* C15: a record is left out of the per-API list exactly when its sourceDown
\* is zero in statusBreakdown and in every statusTimeline entry, and the daily
\* chart counts the source-down calls of every other record on each date
C15_ExcludedIffNoSourceDown ==
  /\ \A i \in 1..Len(revenueApis) :
       LET r == revenueApis[i]
           zeroHistory ==
             /\ r.statusBreakdown.sourceDown = 0
             /\ \A d \in 1..Len(r.statusTimeline) : r.statusTimeline[d].sourceDown = 0
       IN  (\A j \in 1..Len(apiRevenueLoss) : apiRevenueLoss[j].api.id # r.id) <=> zeroHistory
  /\ \A d \in 1..Len(ChartDays) :
       LET i == DayIndex(dailyChartData, ChartDays[d])
       IN  (IF i = 0 THEN 0 ELSE dailyChartData[i].sourceDown)
             = SourceDownOn(revenueApis, ChartDays[d])

\* the entries of apiRevenueLoss of one client, in their order
LossesOf(client) == SelectSeq(apiRevenueLoss, LAMBDA a : a.api.client = client)

RECURSIVE SumSourceDown(_)
SumSourceDown(losses) ==
  IF losses = << >> THEN 0
  ELSE Head(losses).totalSourceDown + SumSourceDown(Tail(losses))

\* the absolute difference of two numbers is below one thousandth
Near(x, y) ==
  /\ JSLess(JSAdd(x, JSNeg(y)), JSDiv(1, 1000))
  /\ JSLess(JSAdd(y, JSNeg(x)), JSDiv(1, 1000))

\* C16 (as the code has it): the client roll-up has one entry per client of
\* an included record, with revenueLoss, sourceDown and apiCount the sum of
\* the losses (added in list order), the sum of sourceDown and the number of
\* that client's included records; the entries are in non-increasing order
\* of revenueLoss and their losses add up to the total revenue loss within
\* one thousandth (both sums are taken in doubles, in different orders)
C16_ClientRollup ==
  /\ \A j \in 1..Len(apiRevenueLoss) :
       \E i \in 1..Len(clientRevenue) : clientRevenue[i].client = apiRevenueLoss[j].api.client
  /\ \A i, k \in 1..Len(clientRevenue) :
       clientRevenue[i].client = clientRevenue[k].client => i = k
  /\ \A i \in 1..Len(clientRevenue) :
       LET members == LossesOf(clientRevenue[i].client)
       IN  /\ members # << >>
           /\ clientRevenue[i].revenueLoss = SumLoss(members)
           /\ clientRevenue[i].sourceDown = SumSourceDown(members)
           /\ clientRevenue[i].apiCount = Len(members)
  /\ \A i \in 1..(Len(clientRevenue) - 1) :
       ~JSLess(clientRevenue[i].revenueLoss, clientRevenue[i + 1].revenueLoss)
  /\ Near(SumLoss(clientRevenue), totalRevenueLoss)

\* two clients, one of them with two records, where the two sums differ
C16_Witness ==
  /\ Len(clientRevenue) = 2
  /\ clientRevenue[2].apiCount = 2
  /\ JSLess(clientRevenue[2].revenueLoss, clientRevenue[1].revenueLoss)
  /\ SumLoss(clientRevenue) # totalRevenueLoss

\* C16 (as stated): the losses of the client entries sum to the total
\* revenue loss
C16_SumsToTotal == SumLoss(clientRevenue) = totalRevenueLoss

\* sourceDown * 0.012 of the records, added one after the other
RECURSIVE SumOfRecordLosses(_, _)
SumOfRecordLosses(as, i) ==
  IF i = 0 THEN Zero(1)
  ELSE JSAdd(SumOfRecordLosses(as, i - 1),
             JSMul(JSDiv(12, 1000), as[i].statusBreakdown.sourceDown, 0))

MaxCompareApis == 2

\* the calls of the dailyData entries of a record, one per day of ChartDays
DailySeries == { << 1, 2 >>, << 2, 2 >> }

\* the record at index i of the apis prop: as in generateMockAPIs,
\* currentCalls is the last dailyData value and previousCalls an earlier one
CompareApi(i, client, series) ==
  [id |-> i,
   name |-> apiNames[((i - 1) % Len(apiNames)) + 1],
   client |-> client,
   currentCalls |-> series[Len(series)],
   previousCalls |-> series[1],
   dailyData |-> [d \in 1..Len(series) |-> [date |-> ChartDays[d], calls |-> series[d]]]]

CompareInputs ==
  UNION { { [i \in 1..n |-> CompareApi(i, f[i].client, f[i].series)] :
              f \in [1..n -> [client : RevenueClients, series : DailySeries]] } :
          n \in 0..MaxCompareApis }

\* acc + d.field: NaN when the entry has no such field (0 + undefined)
AddField(acc, d, field) ==
  IF field \in DOMAIN d THEN JSAdd(acc, FromInt(d[field])) ELSE NaN

RECURSIVE AddSeries(_, _, _)
AddSeries(acc, dailyData, field) ==
  IF dailyData = << >> THEN acc
  ELSE AddSeries(AddField(acc, Head(dailyData), field), Tail(dailyData), field)

RECURSIVE AddApis(_, _, _)
AddApis(acc, as, field) ==
  IF as = << >> THEN acc
  ELSE AddApis(AddSeries(acc, Head(as).dailyData, field), Tail(as), field)

computeVolumes(relevantAPIs) ==
  [currentVolume |-> AddApis(Zero(1), relevantAPIs, "calls"),
   previousVolume |-> AddApis(Zero(1), relevantAPIs, "previousCalls")]

\* previousVolume > 0 ? ((currentVolume - previousVolume) / previousVolume) * 100 : 0
ChangeOf(currentVolume, previousVolume) ==
  IF JSLess(Zero(1), previousVolume)
  THEN JSMul(JSDivide(JSAdd(currentVolume, JSNeg(previousVolume)), previousVolume), 100, 0)
  ELSE Zero(1)

VolumeRow(name, relevantAPIs) ==
  LET v == computeVolumes(relevantAPIs)
  IN  [name |-> name, current |-> v.currentVolume, previous |-> v.previousVolume,
       change |-> ChangeOf(v.currentVolume, v.previousVolume)]

\* "All"; the row is named 'All APIs (Aggregate)'
AggregateName == << 65, 108, 108 >>

AggregateData(as) ==
  LET currentVolume == AddApis(Zero(1), as, "calls")
      previousVolume == AddApis(Zero(1), as, "previousCalls")
  IN  << [name |-> AggregateName, current |-> currentVolume, previous |-> previousVolume,
          change |-> ChangeOf(currentVolume, previousVolume)] >>

ChartData(as, m, clientsSel, apisSel) ==
  IF m = "clients"
  THEN [i \in 1..Len(clientsSel) |->
          VolumeRow(clientsSel[i], SelectSeq(as, LAMBDA a : a.client = clientsSel[i]))]
  ELSE [i \in 1..Len(apisSel) |->
          VolumeRow(apisSel[i], SelectSeq(as, LAMBDA a : a.name = apisSel[i]))]

\* the clients memo
ClientsOf(clientData) == [i \in 1..Len(clientData) |-> clientData[i].client]

\* the clients memo: the client names of clientDataSorted
ComparisonClients(as) == ClientsOf(getClientUsageData(as))

\* the stable sort by b.currentCalls - a.currentCalls
RECURSIVE InsertByCalls(_, _)
InsertByCalls(sorted, x) ==
  IF sorted = << >> THEN << x >>
  ELSE IF Head(sorted).currentCalls < x.currentCalls THEN << x >> \o sorted
  ELSE << Head(sorted) >> \o InsertByCalls(Tail(sorted), x)

RECURSIVE SortByCalls(_)
SortByCalls(seq) ==
  IF seq = << >> THEN << >>
  ELSE InsertByCalls(SortByCalls(SubSeq(seq, 1, Len(seq) - 1)), seq[Len(seq)])

\* the apiNames memo: the names of apisSorted, each once
ComparisonApiNames(as) ==
  LET apisSorted == SortByCalls(as)
      first == SelectSeq([i \in 1..Len(apisSorted) |-> [at |-> i, api |-> apisSorted[i]]],
                         LAMBDA e : \A j \in 1..(e.at - 1) : apisSorted[j].name # e.api.name)
  IN  [i \in 1..Len(first) |-> first[i].api.name]

\* seq.slice(0, 5)
FirstFive(seq) == SubSeq(seq, 1, IF Len(seq) < 5 THEN Len(seq) ELSE 5)

\* prev.includes(x) ? prev.filter(c => c !== x) : [...prev, x]
Toggled(prev, x) ==
  IF \E i \in 1..Len(prev) : prev[i] = x
  THEN SelectSeq(prev, LAMBDA c : c # x)
  ELSE Append(prev, x)

\* the selection of the first five during the first render of a mode
AutoSelectFrom(cs, ns, m, init, clientsSel, apisSel) ==
      IF m = "clients" /\ ~init.clients /\ Len(cs) > 0
      THEN [initialized |-> [init EXCEPT !.clients = TRUE],
            selectedClients |-> FirstFive(cs), selectedAPIs |-> apisSel]
      ELSE IF m = "apis" /\ ~init.apis /\ Len(ns) > 0
      THEN [initialized |-> [init EXCEPT !.apis = TRUE],
            selectedClients |-> clientsSel, selectedAPIs |-> FirstFive(ns)]
      ELSE [initialized |-> init, selectedClients |-> clientsSel, selectedAPIs |-> apisSel]

AutoSelectOf(as, m, init, clientsSel, apisSel) ==
  AutoSelectFrom(ComparisonClients(as), ComparisonApiNames(as), m, init, clientsSel, apisSel)

AutoSelect(m, init, clientsSel, apisSel) ==
  AutoSelectOf(compareApis, m, init, clientsSel, apisSel)

\* the render that follows a change of mode or selection
RenderedWith(r, m) ==
  /\ mode' = m
  /\ initialized' = r.initialized
  /\ selectedClients' = r.selectedClients
  /\ selectedAPIs' = r.selectedAPIs
  /\ chartData' = ChartData(compareApis, m, r.selectedClients, r.selectedAPIs)
  /\ UNCHANGED << compareApis, aggregateData >>

Rendered(m, init, clientsSel, apisSel) ==
  RenderedWith(AutoSelect(m, init, clientsSel, apisSel), m)

CompareInit ==
  /\ CompareAlone
  /\ compareApis \in CompareInputs
  /\ mode = "clients"
  /\ datePreset = "current-vs-previous"
  /\ customFrom = << >>
  /\ customTo = << >>
  /\ LET cs == ComparisonClients(compareApis)
     IN  /\ initialized = [clients |-> Len(cs) > 0, apis |-> FALSE]
         /\ selectedClients = FirstFive(cs)
  /\ selectedAPIs = << >>
  /\ chartData = ChartData(compareApis, mode, selectedClients, selectedAPIs)
  /\ aggregateData = AggregateData(compareApis)

ToggleClient ==
  /\ mode = "clients"
  /\ \E c \in { clients[i] : i \in 1..Len(clients) } :
       /\ \E i \in 1..Len(compareApis) : compareApis[i].client = c
       /\ Rendered(mode, initialized, Toggled(selectedClients, c), selectedAPIs)
  /\ UNCHANGED << datePreset, customFrom, customTo, notCompare >>

ToggleAPI ==
  /\ mode = "apis"
  /\ \E n \in { apiNames[i] : i \in 1..Len(apiNames) } :
       /\ \E i \in 1..Len(compareApis) : compareApis[i].name = n
       /\ Rendered(mode, initialized, selectedClients, Toggled(selectedAPIs, n))
  /\ UNCHANGED << datePreset, customFrom, customTo, notCompare >>

\* setMode('clients'); setSelectedAPIs([])
SetModeClients ==
  /\ Rendered("clients", initialized, selectedClients, << >>)
  /\ UNCHANGED << datePreset, customFrom, customTo, notCompare >>

\* setMode('apis'); setSelectedClients([])
SetModeApis ==
  /\ Rendered("apis", initialized, << >>, selectedAPIs)
  /\ UNCHANGED << datePreset, customFrom, customTo, notCompare >>

\* Clear all
ClearSelection ==
  /\ Len(IF mode = "clients" THEN selectedClients ELSE selectedAPIs) > 0
  /\ IF mode = "clients"
     THEN Rendered(mode, initialized, << >>, selectedAPIs)
     ELSE Rendered(mode, initialized, selectedClients, << >>)
  /\ UNCHANGED << datePreset, customFrom, customTo, notCompare >>

SetDatePreset ==
  \E p \in { "current-vs-previous", "custom" } :
    /\ datePreset' = p
    /\ UNCHANGED << compareApis, mode, customFrom, customTo, selectedClients, selectedAPIs,
                    initialized, chartData, aggregateData, notCompare >>

\* a day picked, or the picked day released, in the From calendar
SetCustomFrom ==
  /\ datePreset = "custom"
  /\ \E d \in { << >> } \cup { ChartDays[i] : i \in 1..Len(ChartDays) } :
       customFrom' = d
  /\ UNCHANGED << compareApis, mode, datePreset, customTo, selectedClients, selectedAPIs,
                  initialized, chartData, aggregateData, notCompare >>

\* the same in the To calendar
SetCustomTo ==
  /\ datePreset = "custom"
  /\ \E d \in { << >> } \cup { ChartDays[i] : i \in 1..Len(ChartDays) } :
       customTo' = d
  /\ UNCHANGED << compareApis, mode, datePreset, customFrom, selectedClients, selectedAPIs,
                  initialized, chartData, aggregateData, notCompare >>

CompareNext ==
  \/ ToggleClient \/ ToggleAPI \/ SetModeClients \/ SetModeApis \/ ClearSelection
  \/ SetDatePreset \/ SetCustomFrom \/ SetCustomTo

SpecCompare == CompareInit /\ [][CompareNext]_vars

\* the calls of the dailyData entries of one record dated from..to, both
\* ends included
RECURSIVE CallsOfDays(_, _, _)
CallsOfDays(dailyData, from, to) ==
  IF dailyData = << >> THEN 0
  ELSE (IF ~StringLess(Head(dailyData).date, from) /\ ~StringLess(to, Head(dailyData).date)
        THEN Head(dailyData).calls ELSE 0) + CallsOfDays(Tail(dailyData), from, to)

RECURSIVE CallsWithin(_, _, _)
CallsWithin(as, from, to) ==
  IF as = << >> THEN 0
  ELSE CallsOfDays(Head(as).dailyData, from, to) + CallsWithin(Tail(as), from, to)

\* C18: with the custom preset and both ends of the range set, the current
\* volume of a selected client or API is the sum of its dailyData calls dated
\* within the range, ends included, and its previous volume is 0
C18_CustomRange ==
  (datePreset = "custom" /\ customFrom # << >> /\ customTo # << >>) =>
    \A i \in 1..Len(chartData) :
      LET relevant == SelectSeq(compareApis,
                        LAMBDA a : IF mode = "clients" THEN a.client = chartData[i].name
                                   ELSE a.name = chartData[i].name)
      IN  /\ chartData[i].current = FromInt(CallsWithin(relevant, customFrom, customTo))
          /\ chartData[i].previous = Zero(1)

\* C19: every number of the comparison rows and of the aggregate row is
\* finite for records whose dailyData entries carry a date and calls only
C19_FiniteVolumes ==
  \A row \in { chartData[i] : i \in 1..Len(chartData) }
             \cup { aggregateData[i] : i \in 1..Len(aggregateData) } :
    IsFinite(row.current) /\ IsFinite(row.previous) /\ IsFinite(row.change)

(***************************************************************************)
(* Percentages of a status breakdown                                       *)
(***************************************************************************)
BreakdownCategories == { "success", "sourceDown", "notFound", "otherError" }

\* C20: the Success Rate of the overview is 0 when the currentCalls of the
\* filtered records sum to 0, the empty set included, and the percent of
\* every category and the vendor success rate of a record are 0 when its
\* four counts are all 0
C20_GuardedSuccessRate ==
  /\ SumCurrentCalls(filteredAPIs) = 0 => successRateCard = Zero(1)
  /\ \A i \in 1..Len(filteredAPIs) :
       LET sb == filteredAPIs[i].statusBreakdown
       IN  BreakdownTotal(sb) = 0 =>
             /\ VendorSuccessRate(sb) = Zero(1)
             /\ \A c \in BreakdownCategories : BreakdownPercent(sb, c) = Zero(1)

(***************************************************************************)
(* getClientUsageData on records that carry their daily, weekly and        *)
(* monthly series (mockData.ts 244-307).                                   *)
(***************************************************************************)
MaxSeriesApis == 2

SeriesClients == { clients[1], clients[2] }

\* { date, calls }[] series over the two days; the API type fixes neither
\* the order nor the keys of a series
DailyChoices ==
  { << [date |-> ChartDays[1], calls |-> 1], [date |-> ChartDays[2], calls |-> 2] >>,
    << [date |-> ChartDays[2], calls |-> 1], [date |-> ChartDays[1], calls |-> 1] >>,
    << [date |-> ChartDays[2], calls |-> 2] >> }

WeeklyChoices ==
  { << [week |-> Weeks[1], calls |-> 1], [week |-> Weeks[2], calls |-> 1] >>,
    << [week |-> Weeks[2], calls |-> 2], [week |-> Weeks[1], calls |-> 1] >> }

\* what generateMonthlyData returns: one entry per month of the year
FullYear(calls, previousYear) ==
  [m \in 1..Len(months) |->
     [month |-> months[m], calls |-> calls, previousYear |-> previousYear]]

MonthlyChoices ==
  { FullYear(2, 1),
    << [month |-> months[2], calls |-> 1, previousYear |-> 0],
       [month |-> months[1], calls |-> 2, previousYear |-> 1] >> }

\* currentCalls and previousCalls as generateMockAPIs reads them off dailyData
SeriesApi(client, daily, weekly, monthly) ==
  [client |-> client,
   currentCalls |-> daily[Len(daily)].calls,
   previousCalls |-> daily[1].calls,
   dailyData |-> daily, weeklyData |-> weekly, monthlyData |-> monthly]

SeriesApis ==
  { SeriesApi(c, d, w, mo) :
      c \in SeriesClients, d \in DailyChoices, w \in WeeklyChoices, mo \in MonthlyChoices }

SeriesInit ==
  /\ AggAlone
  /\ apis \in SeqsUpTo(SeriesApis, MaxSeriesApis)
  /\ clientUsage = << >>
  /\ pc = "idle"

SpecSeries == SeriesInit /\ [][AggNext]_vars

KeysOf(series, field) == { series[i][field] : i \in DOMAIN series }

\* the sum of one numeric field over the entries of a series with this key
RECURSIVE KeySum(_, _, _, _)
KeySum(series, field, k, num) ==
  IF series = << >> THEN 0
  ELSE (IF Head(series)[field] = k THEN Head(series)[num] ELSE 0)
       + KeySum(Tail(series), field, k, num)

\* the same sum over the named series of every member of a client group
RECURSIVE MemberSum(_, _, _, _, _)
MemberSum(members, ser, field, k, num) ==
  IF members = << >> THEN 0
  ELSE KeySum(Head(members)[ser], field, k, num)
       + MemberSum(Tail(members), ser, field, k, num)

MergedExactly(group, ser, field, num) ==
  LET out == group[ser]
      members == Members(group.client)
  IN  /\ KeysOf(out, field)
           = UNION { KeysOf(members[i][ser], field) : i \in DOMAIN members }
      /\ \A i, j \in DOMAIN out : out[i][field] = out[j][field] => i = j
      /\ \A i \in DOMAIN out :
           out[i][num] = MemberSum(members, ser, field, out[i][field], num)

\* C21: for every client group, each of dailyData, weeklyData and monthlyData
\* has exactly one entry per key that occurs in a member's series and no other
\* entry, and its calls (and previousYear of monthlyData) are the sums over
\* the members' entries with that key.
C21_MergedSeries ==
  pc = "done" =>
    \A g \in DOMAIN clientUsage :
      /\ MergedExactly(clientUsage[g], "dailyData", "date", "calls")
      /\ MergedExactly(clientUsage[g], "weeklyData", "week", "calls")
      /\ MergedExactly(clientUsage[g], "monthlyData", "month", "calls")
      /\ MergedExactly(clientUsage[g], "monthlyData", "month", "previousYear")

\* monthlyData is read off the fixed list of months: one entry per month of
\* the year, in the order of the list, with the members' sums for that month
ZeroFilledMonths(group) ==
  LET out == group.monthlyData
      members == Members(group.client)
  IN  /\ Len(out) = Len(months)
      /\ \A m \in DOMAIN out :
           /\ out[m].month = months[m]
           /\ out[m].calls = MemberSum(members, "monthlyData", "month", months[m], "calls")
           /\ out[m].previousYear
                = MemberSum(members, "monthlyData", "month", months[m], "previousYear")

\* C21 as the code has it: dailyData and weeklyData have exactly one entry per
\* key that occurs in a member's series, with the summed calls; monthlyData
\* has one entry for each of the twelve months, with calls and previousYear
\* summed over the members' entries of that month, 0 where there is none.
C21_MergedOrZeroFilled ==
  pc = "done" =>
    \A g \in DOMAIN clientUsage :
      /\ MergedExactly(clientUsage[g], "dailyData", "date", "calls")
      /\ MergedExactly(clientUsage[g], "weeklyData", "week", "calls")
      /\ ZeroFilledMonths(clientUsage[g])

\* a group of two records whose daily series have different key sets and one
\* of whose monthly series covers two months only
C21_Witness ==
  /\ pc = "done"
  /\ \E g \in DOMAIN clientUsage :
       /\ clientUsage[g].apiCount = 2
       /\ Len(clientUsage[g].dailyData) = 2
       /\ \E i \in DOMAIN apis :
            /\ apis[i].client = clientUsage[g].client
            /\ Len(apis[i].dailyData) = 1
            /\ Len(apis[i].monthlyData) = 2
       /\ clientUsage[g].monthlyData[3].calls = 0

AscendingBy(series, field) ==
  \A i \in 1..(Len(series) - 1) : StringLess(series[i][field], series[i + 1][field])

DrawerTimelines ==
  { << [date |-> ChartDays[1], success |-> 7, sourceDown |-> 1, notFound |-> 2,
        otherError |-> 0],
       [date |-> ChartDays[2], success |-> 7, sourceDown |-> 1, notFound |-> 2,
        otherError |-> 2] >>,
    << [date |-> ChartDays[1], success |-> 7, sourceDown |-> 1, notFound |-> 2,
        otherError |-> 2],
       [date |-> ChartDays[2], success |-> 7, sourceDown |-> 1, notFound |-> 2,
        otherError |-> 1] >>,
    << [date |-> ChartDays[2], success |-> 7, sourceDown |-> 1, notFound |-> 2,
        otherError |-> 1] >> }

\* record i + 1 of the snapshot, with the fields the chart and the drawer read
DrawerApi(i, timeline) ==
  [id |-> i + 1,
   name |-> apiNames[(i % Len(apiNames)) + 1],
   client |-> clients[(i % NumClients) + 1],
   statusTimeline |-> timeline]

RECURSIVE DrawerSnapshotsOf(_)
DrawerSnapshotsOf(n) ==
  IF n = 0 THEN { << >> }
  ELSE { Append(s, DrawerApi(n - 1, t)) : s \in DrawerSnapshotsOf(n - 1), t \in DrawerTimelines }

\* the texts typed into the drawer's search box: "", "e", "E" and "a"
DrawerSearches == { << >>, << 101 >>, << 69 >>, << 97 >> }

SortKeys == {"name", "total", "success", "sourceDown", "notFound", "timeout",
             "failurePct", "avgResponseTime"}

\* two of the values Math.round(50 + Math.random() * 450) can take
AvgResponseTimes == {50, 500}

\* api.statusTimeline.find(d => d.date === dayDate)
HasDayEntry(a, dayDate) == \E i \in DOMAIN a.statusTimeline : a.statusTimeline[i].date = dayDate

DayEntry(a, dayDate) ==
  a.statusTimeline[CHOOSE i \in DOMAIN a.statusTimeline :
                     /\ a.statusTimeline[i].date = dayDate
                     /\ \A j \in 1..(i - 1) : a.statusTimeline[j].date # dayDate]

\* the item pushed for one record that has an entry for the day
BreakdownItem(a, dayDate, avg) ==
  LET dayEntry == DayEntry(a, dayDate)
      total == dayEntry.success + dayEntry.sourceDown + dayEntry.notFound
               + dayEntry.otherError
      timeoutPart == TimeoutPart(dayEntry.otherError)
      failures == total - dayEntry.success
  IN  [id |-> a.id, name |-> a.name, client |-> a.client,
       total |-> total,
       success |-> dayEntry.success,
       sourceDown |-> dayEntry.sourceDown,
       notFound |-> dayEntry.notFound,
       timeout |-> timeoutPart,
       otherError |-> dayEntry.otherError - timeoutPart,
       failurePct |-> IF total > 0 THEN JSMul(JSDiv(failures, total), 100, 0)
                      ELSE FromInt(0),
       avgResponseTime |-> avg]

\* the records the forEach does not return early for
WithDayEntry(as, dayDate) == SelectSeq(as, LAMBDA a : HasDayEntry(a, dayDate))

\* the apiBreakdown memo; avg[i] is the response time drawn for row i
ApiBreakdown(as, dayDate, avg) ==
  LET kept == WithDayEntry(as, dayDate)
  IN  [i \in 1..Len(kept) |-> BreakdownItem(kept[i], dayDate, avg[i])]

\* the comparator of result.sort returns a negative number for (a, b)
SortsBefore(a, b, k, dir) ==
  IF k = "name"
  THEN (IF dir = "asc" THEN StringLess(a[k], b[k]) ELSE StringLess(b[k], a[k]))
  ELSE IF k = "failurePct"
  THEN (IF dir = "asc" THEN JSLess(a[k], b[k]) ELSE JSLess(b[k], a[k]))
  ELSE (IF dir = "asc" THEN a[k] < b[k] ELSE b[k] < a[k])

RECURSIVE InsertRow(_, _, _, _)
InsertRow(sorted, x, k, dir) ==
  IF sorted = << >> THEN << x >>
  ELSE IF SortsBefore(x, Head(sorted), k, dir) THEN << x >> \o sorted
  ELSE << Head(sorted) >> \o InsertRow(Tail(sorted), x, k, dir)

RECURSIVE SortRows(_, _, _)
SortRows(rows, k, dir) ==
  IF rows = << >> THEN << >>
  ELSE InsertRow(SortRows(SubSeq(rows, 1, Len(rows) - 1), k, dir), rows[Len(rows)], k, dir)

MatchesSearch_CaseSensitive(a, text) ==
  \/ Includes(ToLowerCase(a.name), text)
  \/ Includes(ToLowerCase(a.client), text)

\* the search of the drawer: name or client contains the text, letter case aside
MatchesSearch(a, text) ==
  \/ Includes(ToLowerCase(a.name), ToLowerCase(text))
  \/ Includes(ToLowerCase(a.client), ToLowerCase(text))

\* the filteredAPIs memo of the drawer: filter, then sort in place
DrawerFilteredAPIs(rows, text, k, dir) ==
  SortRows(SelectSeq(rows, LAMBDA a : MatchesSearch(a, text)), k, dir)

notChartDrawer == << classifierVars, aggVars, indexVars, splitVars, genVars, revenueVars,
    compareVars, headerVars, frameVars >>

DrawerInit ==
  /\ ChartAlone
  /\ chartApis \in UNION { DrawerSnapshotsOf(n) : n \in 0..MaxChartApis }
  /\ usageSource = "overall"
  /\ dailyStatusData = DailyStatusData(chartApis)
  /\ filteredData = FilteredData(dailyStatusData, usageSource)

\* the usage source is switched in the header while the drawer is closed
SwitchUsageSource ==
  /\ drillDown = << >>
  /\ SetUsageSource

\* onDayClick(payload, apis): the drawer mounts with its initial state
ClickChartDay ==
  /\ drillDown = << >>
  /\ \E i \in DOMAIN filteredData :
       \E avg \in [1..Len(WithDayEntry(chartApis, filteredData[i].date)) -> AvgResponseTimes] :
         /\ drillDown' = << [dayData |-> filteredData[i], apis |-> chartApis] >>
         /\ search' = << >>
         /\ sortKey' = "total"
         /\ sortDir' = "desc"
         /\ apiBreakdown' = ApiBreakdown(chartApis, filteredData[i].date, avg)
         /\ drawerFilteredAPIs' = DrawerFilteredAPIs(apiBreakdown', << >>, "total", "desc")
  /\ UNCHANGED << chartVars, notChartDrawer >>

\* onClose: drillDown is null and the drawer unmounts
CloseDrawer ==
  /\ drillDown # << >>
  /\ drillDown' = << >>
  /\ search' = << >>
  /\ sortKey' = "total"
  /\ sortDir' = "desc"
  /\ apiBreakdown' = << >>
  /\ drawerFilteredAPIs' = << >>
  /\ UNCHANGED << chartVars, notChartDrawer >>

SetSearch ==
  /\ drillDown # << >>
  /\ \E text \in DrawerSearches :
       /\ search' = text
       /\ drawerFilteredAPIs' = DrawerFilteredAPIs(apiBreakdown, text, sortKey, sortDir)
  /\ UNCHANGED << drillDown, sortKey, sortDir, apiBreakdown, chartVars, notChartDrawer >>

\* handleSort: the same column flips the direction, another column starts at desc
HandleSort ==
  /\ drillDown # << >>
  /\ \E k \in SortKeys :
       /\ sortKey' = k
       /\ sortDir' = IF sortKey = k THEN (IF sortDir = "asc" THEN "desc" ELSE "asc")
                     ELSE "desc"
       /\ drawerFilteredAPIs' = DrawerFilteredAPIs(apiBreakdown, search, k, sortDir')
  /\ UNCHANGED << drillDown, search, apiBreakdown, chartVars, notChartDrawer >>

DrawerNext ==
  \/ SwitchUsageSource
  \/ ClickChartDay
  \/ CloseDrawer
  \/ SetSearch
  \/ HandleSort

SpecDrawer == DrawerInit /\ [][DrawerNext]_vars

\* two code units that are the same letter in either case, or the same unit
SameLetter(x, y) ==
  \/ x = y
  \/ x \in 65..90 /\ y = x + 32
  \/ y \in 65..90 /\ x = y + 32

\* str contains q as a substring, letter case ignored
ContainsFold(str, q) ==
  \E off \in 0..(Len(str) - Len(q)) : \A j \in 1..Len(q) : SameLetter(str[off + j], q[j])

Selected(a, q) == ContainsFold(a.name, q) \/ ContainsFold(a.client, q)

SameFold(q1, q2) == Len(q1) = Len(q2) /\ \A j \in 1..Len(q1) : SameLetter(q1[j], q2[j])

\* C23: the search filter keeps exactly the records whose name or client
\* contains the query ignoring letter case, in their original order; queries
\* that differ only in letter case select the same records, and the empty
\* query selects every record.
C23_OriginalOrder ==
  drillDown # << >> =>
    /\ drawerFilteredAPIs = SelectSeq(apiBreakdown, LAMBDA a : Selected(a, search))
    /\ \A q1, q2 \in DrawerSearches :
         SameFold(q1, q2) =>
           DrawerFilteredAPIs(apiBreakdown, q1, sortKey, sortDir)
             = DrawerFilteredAPIs(apiBreakdown, q2, sortKey, sortDir)
    /\ Len(DrawerFilteredAPIs(apiBreakdown, << >>, sortKey, sortDir)) = Len(apiBreakdown)

\* the position in apiBreakdown of a row of the drawer's list
RowIndex(row) == CHOOSE i \in DOMAIN apiBreakdown : apiBreakdown[i] = row

\* C23 as the code has it: the drawer's list holds exactly the rows whose name
\* or client contains the search text ignoring letter case, each once, in the
\* order of the chosen column and direction, rows that compare equal in their
\* original order; texts that differ only in letter case give the same list,
\* and the empty text selects every row.
C23_MatchingRowsSorted ==
  drillDown # << >> =>
    /\ { drawerFilteredAPIs[i] : i \in DOMAIN drawerFilteredAPIs }
         = { apiBreakdown[i] : i \in { j \in DOMAIN apiBreakdown :
                                          Selected(apiBreakdown[j], search) } }
    /\ \A i, j \in DOMAIN drawerFilteredAPIs :
         i < j =>
           /\ drawerFilteredAPIs[i] # drawerFilteredAPIs[j]
           /\ ~SortsBefore(drawerFilteredAPIs[j], drawerFilteredAPIs[i], sortKey, sortDir)
           /\ (~SortsBefore(drawerFilteredAPIs[i], drawerFilteredAPIs[j], sortKey, sortDir)
                => RowIndex(drawerFilteredAPIs[i]) < RowIndex(drawerFilteredAPIs[j]))
    /\ \A q1, q2 \in DrawerSearches :
         SameFold(q1, q2) =>
           DrawerFilteredAPIs(apiBreakdown, q1, sortKey, sortDir)
             = DrawerFilteredAPIs(apiBreakdown, q2, sortKey, sortDir)
    /\ Len(DrawerFilteredAPIs(apiBreakdown, << >>, sortKey, sortDir)) = Len(apiBreakdown)

\* the text "E" keeps one of two rows, found through the small letter of a name
C23_Witness ==
  /\ drillDown # << >>
  /\ search = << 69 >>
  /\ Len(apiBreakdown) = 2
  /\ Len(drawerFilteredAPIs) = 1

\* the filteredAPIs memo of Index keeps the matching records in their order
C23_IndexFilter ==
  filteredAPIs = SelectSeq(mockAPIs, LAMBDA a : Selected(a, searchQuery))

\* how many rows of a list carry the id of a record
RowsOf(rows, id) == Cardinality({ j \in DOMAIN rows : rows[j].id = id })

\* the drawer has one row for each record with an entry for its day, none for
\* the others
DrawerSkipsMissingDay ==
  drillDown # << >> =>
    \A i \in DOMAIN drillDown[1].apis :
      LET a == drillDown[1].apis[i]
      IN  RowsOf(apiBreakdown, a.id)
            = IF HasDayEntry(a, drillDown[1].dayData.date) THEN 1 ELSE 0

\* the revenue list of the day has one row for each record with an entry for
\* the day whose sourceDown is positive, none for the others
RevenueSkipsMissingDay ==
  selectedDay # << >> =>
    \A i \in DOMAIN revenueApis :
      LET a == revenueApis[i]
      IN  RowsOf(dayAPIs, a.id)
            = IF /\ HasDayEntry(a, selectedDay)
                 /\ DayEntry(a, selectedDay).sourceDown > 0
              THEN 1 ELSE 0

\* C25: a record without a statusTimeline entry for the selected day is left
\* out of the day drill-down and of the day's revenue-loss list, and every
\* record that has an entry for the day (with sourceDown > 0, in the revenue
\* list) appears there exactly once.
C25_MissingDaySkipped == DrawerSkipsMissingDay /\ RevenueSkipsMissingDay

\* the drawer is open on a day for which one of two records has no entry
DrawerMissingDayReached ==
  /\ drillDown # << >>
  /\ Len(drillDown[1].apis) = 2
  /\ Len(apiBreakdown) = 1

\* one count added up over the rows of the drawer's per-API list
RECURSIVE SumRows(_, _)
SumRows(rows, field) ==
  IF rows = << >> THEN 0
  ELSE SumRows(SubSeq(rows, 1, Len(rows) - 1), field) + rows[Len(rows)][field]

SummedFields == {"total", "success", "sourceDown", "notFound", "timeout"}

RowsAddUpToDay ==
  \A field \in SummedFields : SumRows(apiBreakdown, field) = drillDown[1].dayData[field]

\* C29: while the drawer is open, the total of the per-API rows added up is
\* the day total of the drawer's summary, and likewise success, sourceDown,
\* notFound and timeout, for every usage source.
C29_RowsAddUpToSummary == drillDown # << >> => RowsAddUpToDay

\* the same for a drawer opened while the usage source is 'overall'
RowsAddUpWhenOverall == (drillDown # << >> /\ usageSource = "overall") => RowsAddUpToDay

(***************************************************************************)
(* The record collection under the aggregations and the sorts of the views *)
(*                                                                         *)
(* Array.prototype.sort sorts the array it is called on, so what a sort    *)
(* changes depends on which array that is.  heap holds the arrays by       *)
(* reference: heap[1] is the array handed in as apis or mockAPIs, filter,  *)
(* spread, Array.from and map allocate a new one.  A handler starts from   *)
(* the input alone, the arrays of earlier renders being garbage, and       *)
(* leaves the arrays it allocated behind.                                  *)
(***************************************************************************)
MaxFrameApis == 2

\* the record at index i: the fields the aggregations and the sorts read
FrameApi(i, client, status, daily) ==
  [id |-> i, client |-> client, status |-> status,
   currentCalls |-> daily[Len(daily)].calls,
   previousCalls |-> daily[1].calls,
   dailyData |-> daily]

\* two daily series, with 2 and with 1 as the latest calls
FrameDailies ==
  { << [date |-> ChartDays[1], calls |-> 1], [date |-> ChartDays[2], calls |-> 2] >>,
    << [date |-> ChartDays[1], calls |-> 1], [date |-> ChartDays[2], calls |-> 1] >> }

\* the statuses the alert view lists
AlertStatuses == {"warning", "critical"}

FrameInputs ==
  UNION { { [i \in 1..n |-> FrameApi(i, f[i].client, f[i].status, f[i].daily)] :
              f \in [1..n -> [client : SeriesClients, status : AlertStatuses,
                              daily : FrameDailies]] } :
          n \in 0..MaxFrameApis }

\* [...array]: the spread allocates a copy, whose reference is the last one
Spread_Alias(h, ref) == h

Spread(h, ref) == Append(h, h[ref])

\* array.filter(test), by the positions that pass
Filter(h, ref, keep(_)) == Append(h, SelectSeq(h[ref], keep))

\* the reference of the array allocated last
Newest(h) == Len(h)

\* the clients of a list in the order in which the Map of renderAPIList meets them
GroupClients(list) ==
  LET first == SelectSeq([i \in 1..Len(list) |-> [at |-> i, client |-> list[i].client]],
                         LAMBDA e : \A j \in 1..(e.at - 1) : list[j].client # e.client)
  IN  [i \in 1..Len(first) |-> first[i].client]

\* renderAPIList: one array per client, filled by push, then sorted in place
\* by b.currentCalls - a.currentCalls when it is rendered
RECURSIVE PushGroups(_, _, _)
PushGroups(h, list, groupClients) ==
  IF groupClients = << >> THEN h
  ELSE PushGroups(Append(h, SortByCalls(SelectSeq(list,
                                 LAMBDA a : a.client = Head(groupClients)))),
                  list, Tail(groupClients))

FrameInit ==
  /\ FrameAlone
  /\ \E input \in FrameInputs : heap = << input >>
  /\ called = ""
  /\ results = [stats |-> << >>, usage |-> << >>]

\* getAggregatedStats(apis): two reduce calls and three filter(...).length
CallGetAggregatedStats ==
  LET h1 == Filter(<< heap[1] >>, 1, LAMBDA a : a.status = "healthy")
      h2 == Filter(h1, 1, LAMBDA a : a.status = "warning")
      h3 == Filter(h2, 1, LAMBDA a : a.status = "critical")
  IN  /\ heap' = h3
      /\ called' = "getAggregatedStats"
      /\ results' = [results EXCEPT !.stats = << getAggregatedStats(h3[1]) >>]
      /\ UNCHANGED notFrame

\* getClientUsageData(apis): the array made by Array.from(...).map(...) is
\* sorted in place and returned
CallGetClientUsageDataOnHeap ==
  LET clientMap == BuildClientMap(heap[1])
      h1 == Append(<< heap[1] >>, [i \in 1..Len(clientMap) |-> ToClientUsage(clientMap[i])])
      h2 == [h1 EXCEPT ![Newest(h1)] = SortByTotalCalls(@)]
  IN  /\ heap' = h2
      /\ called' = "getClientUsageData"
      /\ results' = [results EXCEPT !.usage = << h2[Newest(h2)] >>]
      /\ UNCHANGED notFrame

\* ComparisonTab.clientDataSorted: clientData.sort(...) on the array that
\* getClientUsageData returned
ComparisonClientSort ==
  LET h1 == Append(<< heap[1] >>, getClientUsageData(heap[1]))
  IN  /\ heap' = [h1 EXCEPT ![Newest(h1)] = SortByTotalCalls(@)]
      /\ called' = "ComparisonTab"
      /\ UNCHANGED << results, notFrame >>

\* AlertDetailView: the two filters, their concatenation, and renderAPIList
\* over it, whose groups are sorted in place
RenderAPIList ==
  LET h1 == Filter(<< heap[1] >>, 1, LAMBDA a : a.status = "warning")
      h2 == Filter(h1, 1, LAMBDA a : a.status = "critical")
      h3 == Append(h2, h2[3] \o h2[2])
  IN  /\ heap' = PushGroups(h3, h3[4], GroupClients(h3[4]))
      /\ called' = "AlertDetailView"
      /\ UNCHANGED << results, notFrame >>

\* the client detail view: Index sorts mockAPIs.filter(...) in place, and
\* ClientDetailView sorts a spread of the clientAPIs it is handed
ClientDetailSort ==
  \E c \in SeriesClients :
    LET h1 == Filter(<< heap[1] >>, 1, LAMBDA a : a.client = c)
        h2 == [h1 EXCEPT ![Newest(h1)] = SortByCalls(@)]
        h3 == Spread(h2, Newest(h2))
    IN  /\ heap' = [h3 EXCEPT ![Newest(h3)] = SortByCalls(@)]
        /\ called' = "ClientDetailView"
        /\ UNCHANGED << results, notFrame >>

\* Index.sortedAPIs for APIRankingList: [...mockAPIs].sort(...)
RankingSort ==
  LET h1 == Spread(<< heap[1] >>, 1)
  IN  /\ heap' = [h1 EXCEPT ![Newest(h1)] = SortByCalls(@)]
      /\ called' = "APIRankingList"
      /\ UNCHANGED << results, notFrame >>

FrameNext ==
  \/ CallGetAggregatedStats
  \/ CallGetClientUsageDataOnHeap
  \/ ComparisonClientSort
  \/ RenderAPIList
  \/ ClientDetailSort
  \/ RankingSort

SpecFrame == FrameInit /\ [][FrameNext]_vars

ViewSnapshots ==
  { [i \in 1..NumApis |->
       GeneratedApi(i - 1, 1, 1, st[i], CHOOSE sb \in Breakdowns(1) : TRUE)] :
      st \in [1..NumApis -> Statuses] }

ViewInit ==
  /\ IndexAlone
  /\ mockAPIs \in ViewSnapshots
  /\ searchQuery = << >>
  /\ filteredAPIs = FilterAPIs(mockAPIs, << >>)
  /\ filteredStats = getAggregatedStats(filteredAPIs)
  /\ successRateCard = SuccessRate(filteredAPIs)
  /\ view = Overview

SpecView == ViewInit /\ [][Next]_vars

\* the view the API detail view was opened from, as the claim names it
OpenedFrom(v) ==
  IF v.fromAlert THEN "alert-detail"
  ELSE IF v.fromClient # << >> THEN "client-detail"
  ELSE "overview"

\* C26: back in the API detail view returns to the view it was opened from
\* (the alert view, the client detail view of the same client, or else the
\* overview), and from every reachable view two back actions at most lead to
\* the overview.
C26_BackReturns ==
  /\ [][(Back /\ view.type = "api-detail") =>
          /\ view'.type = OpenedFrom(view)
          /\ view'.clientName = view.fromClient
          /\ view'.apiId = 0]_vars
  /\ [](view.type = "overview" \/ BackOf(view).type = "overview"
          \/ BackOf(BackOf(view)).type = "overview")

\* an API detail view opened from a client detail view, two steps from the overview
C26_Witness ==
  /\ view.type = "api-detail"
  /\ view.fromClient # << >>
  /\ BackOf(view).type = "client-detail"

\* C27: the client name of a client detail view is the client of a record of
\* the snapshot and the API id of an API detail view is the id of one, so
\* neither find of the render returns undefined.
C27_ViewTargetExists ==
  /\ view.type = "client-detail" =>
       \E i \in DOMAIN mockAPIs : mockAPIs[i].client = view.clientName
  /\ view.type = "api-detail" =>
       \E i \in DOMAIN mockAPIs : mockAPIs[i].id = view.apiId

\* a client detail view reached while the search text is not empty
C27_Witness ==
  /\ view.type = "client-detail"
  /\ searchQuery # << >>
  /\ Len(filteredAPIs) < Len(mockAPIs)

(***************************************************************************)
(* ComparisonTab under the search of the header: its apis prop is          *)
(* filteredAPIs of Index (part_005 608-610), which changes with the search *)
(* text while the tab stays mounted and keeps its state.                   *)
(***************************************************************************)
\* the search texts "", "c" and "t"
CompareSearches == { << >>, << 99 >>, << 116 >> }

notCompareSearch == << classifierVars, aggVars, splitVars, chartVars, genVars, revenueVars,
    drawerVars, headerVars, frameVars >>

CompareSearchInit ==
  /\ ClassifierIdle /\ AggIdle /\ SplitIdle /\ ChartIdle /\ GenIdle /\ RevenueIdle
  /\ DrawerIdle /\ HeaderIdle /\ FrameIdle
  /\ mockAPIs \in CompareInputs
  /\ searchQuery = << >>
  /\ filteredAPIs = << >> /\ filteredStats = << >> /\ successRateCard = << >>
  /\ view = << >>
  /\ compareApis = FilterAPIs(mockAPIs, searchQuery)
  /\ mode = "clients"
  /\ datePreset = "current-vs-previous"
  /\ customFrom = << >>
  /\ customTo = << >>
  /\ LET cs == ComparisonClients(compareApis)
     IN  /\ initialized = [clients |-> Len(cs) > 0, apis |-> FALSE]
         /\ selectedClients = FirstFive(cs)
  /\ selectedAPIs = << >>
  /\ chartData = ChartData(compareApis, mode, selectedClients, selectedAPIs)
  /\ aggregateData = AggregateData(compareApis)

\* the render of the tab with the records as and the selection r made from them
RenderedFor(q, as, r) ==
  /\ searchQuery' = q
  /\ compareApis' = as
  /\ initialized' = r.initialized
  /\ selectedClients' = r.selectedClients
  /\ selectedAPIs' = r.selectedAPIs
  /\ chartData' = ChartData(as, mode, r.selectedClients, r.selectedAPIs)
  /\ aggregateData' = AggregateData(as)
  /\ UNCHANGED << mode, datePreset, customFrom, customTo, mockAPIs, filteredAPIs,
                  filteredStats, successRateCard, view, notCompareSearch >>

RenderedAfterSearch(q, as) ==
  RenderedFor(q, as, AutoSelectOf(as, mode, initialized, selectedClients, selectedAPIs))

\* the search text changes: the tab renders again with the new apis prop and
\* the state it has
SetCompareSearch == \E q \in CompareSearches : RenderedAfterSearch(q, FilterAPIs(mockAPIs, q))

CompareSearchNext == CompareNext \/ SetCompareSearch

SpecCompareSearch == CompareSearchInit /\ [][CompareSearchNext]_vars

\* const items = mode === 'clients' ? clients : apiNames, and selected likewise
OfferedItems ==
  IF mode = "clients" THEN ComparisonClients(compareApis)
  ELSE ComparisonApiNames(compareApis)

ActiveSelection == IF mode = "clients" THEN selectedClients ELSE selectedAPIs

InactiveSelection == IF mode = "clients" THEN selectedAPIs ELSE selectedClients

NamesOf(seq) == { seq[i] : i \in DOMAIN seq }

\* C28: every selected name of the active mode is in the list of items on
\* offer, no name is selected twice, the selection of the other mode is empty,
\* and toggling an item twice gives the selection back.
C28_SelectionWithinOffer ==
  /\ NamesOf(ActiveSelection) \subseteq NamesOf(OfferedItems)
  /\ \A i, j \in DOMAIN ActiveSelection : ActiveSelection[i] = ActiveSelection[j] => i = j
  /\ InactiveSelection = << >>
  /\ \A x \in NamesOf(OfferedItems) :
       NamesOf(Toggled(Toggled(ActiveSelection, x), x)) = NamesOf(ActiveSelection)

\* the same without the first conjunct
SelectionWellFormed ==
  /\ \A i, j \in DOMAIN ActiveSelection : ActiveSelection[i] = ActiveSelection[j] => i = j
  /\ InactiveSelection = << >>
  /\ \A x \in NamesOf(OfferedItems) :
       NamesOf(Toggled(Toggled(ActiveSelection, x), x)) = NamesOf(ActiveSelection)

(***************************************************************************)
(* Search box of DashboardHeader (DashboardHeader.tsx 50-72, 142-185)      *)
(***************************************************************************)
\* searchSuggestions of Index: the distinct clients, then the name of every
\* record, so a name that two clients have stands twice ("Us" here)
HeaderSuggestions ==
  << clients[1], clients[2], apiNames[1], apiNames[2], apiNames[1], apiNames[3], apiNames[4] >>

\* the texts typed into the box: "", "a", "E", "s", "o", "t"
TypedQueries == { << >>, << 97 >>, << 69 >>, << 115 >>, << 111 >>, << 116 >> }

\* slice(0, n)
Slice(seq, n) == SubSeq(seq, 1, IF Len(seq) < n THEN Len(seq) ELSE n)

\* const filteredSuggestions = searchQuery.length > 0 ? ... .slice(0, 8) : []
FilteredSuggestions(suggestions, query) ==
  IF Len(query) > 0
  THEN Slice(SelectSeq(suggestions,
                       LAMBDA s : Includes(ToLowerCase(s), ToLowerCase(query))), 8)
  ELSE << >>

\* the same list without the removal of the earlier entry
NextRecent_KeepEarlier(prev, v) == Slice(<< v >> \o prev, 5)

\* [value, ...prev.filter(s => s !== value)].slice(0, 5)
NextRecent(prev, v) == Slice(<< v >> \o SelectSeq(prev, LAMBDA s : s # v), 5)

HeaderInit ==
  /\ HeaderAlone
  /\ searchSuggestions = HeaderSuggestions
  /\ headerSearchQuery = << >>
  /\ searchFocused = FALSE
  /\ recentSearches = << >>

\* onFocus of the input
FocusSearch ==
  /\ ~searchFocused
  /\ searchFocused' = TRUE
  /\ UNCHANGED << searchSuggestions, headerSearchQuery, recentSearches, notHeader >>

\* a mousedown outside the search box
BlurSearch ==
  /\ searchFocused
  /\ searchFocused' = FALSE
  /\ UNCHANGED << searchSuggestions, headerSearchQuery, recentSearches, notHeader >>

\* onChange of the input
TypeSearch ==
  \E q \in TypedQueries :
    /\ searchFocused
    /\ headerSearchQuery' = q
    /\ UNCHANGED << searchSuggestions, searchFocused, recentSearches, notHeader >>

\* the entries the open dropdown shows: the recent ones while the box is
\* empty, and the suggestions for the text
Offered(v) ==
  /\ searchFocused
  /\ \/ /\ Len(headerSearchQuery) = 0
        /\ \E i \in DOMAIN recentSearches : recentSearches[i] = v
     \/ LET fs == FilteredSuggestions(searchSuggestions, headerSearchQuery)
        IN  \E i \in DOMAIN fs : fs[i] = v

\* a click on an entry of the dropdown
handleSearchSelect(v) ==
  /\ Offered(v)
  /\ headerSearchQuery' = v
  /\ searchFocused' = FALSE
  /\ recentSearches' = NextRecent(recentSearches, v)
  /\ UNCHANGED << searchSuggestions, notHeader >>

SelectSuggestion == \E i \in DOMAIN searchSuggestions : handleSearchSelect(searchSuggestions[i])

HeaderNext == FocusSearch \/ BlurSearch \/ TypeSearch \/ SelectSuggestion

SpecHeader == HeaderInit /\ [][HeaderNext]_vars

PositionIn(seq, x) == CHOOSE i \in DOMAIN seq : seq[i] = x

\* after selecting v: v is first, the other entries keep the order they had,
\* and only an entry pushed beyond the fifth place is lost
MovedToFront(v) ==
  /\ recentSearches'[1] = v
  /\ \A i, j \in DOMAIN recentSearches' :
       (1 < i /\ i < j) =>
          /\ recentSearches'[i] \in NamesOf(recentSearches)
          /\ recentSearches'[j] \in NamesOf(recentSearches)
          /\ PositionIn(recentSearches, recentSearches'[i])
               < PositionIn(recentSearches, recentSearches'[j])
  /\ \A x \in NamesOf(recentSearches') \ {v} : x \in NamesOf(recentSearches)
  /\ \A i \in DOMAIN recentSearches :
       (i < 5 /\ recentSearches[i] # v) => recentSearches[i] \in NamesOf(recentSearches')
  /\ Len(recentSearches) < 5 => NamesOf(recentSearches) \subseteq NamesOf(recentSearches')

\* C30: the recent searches are at most five, hold no value twice, and every
\* selection puts the selected value first and leaves the others in the order
\* they had, so the list runs from the latest selection to the earliest.
C30_RecentSearches ==
  /\ [](/\ Len(recentSearches) <= 5
        /\ \A i, j \in DOMAIN recentSearches : recentSearches[i] = recentSearches[j] => i = j)
  /\ [][\A k \in DOMAIN searchSuggestions :
          handleSearchSelect(searchSuggestions[k]) => MovedToFront(searchSuggestions[k])]_vars

\* a full list after a selection of the name that the suggestions hold twice,
\* with one of the six values on offer missing from it
C30_Witness ==
  /\ Len(recentSearches) = 5
  /\ headerSearchQuery = recentSearches[1]
  /\ headerSearchQuery = apiNames[1]
  /\ ~searchFocused
  /\ clients[1] \notin NamesOf(recentSearches)

====
